---- MODULE Spec2Model ----
(***************************************************************************)
(* Quota and usage accounting engine of aup-learning-cloud:                *)
(* runtime/hub/core/quota/manager.py (QuotaManager) on top of the          *)
(* SQLAlchemy session_scope of core/database.py.                           *)
(*                                                                         *)
(* The three tables are sequences of rows (the row id is the index, as     *)
(* with an autoincrement primary key).  Every operation is modelled as a   *)
(* unit of work: what the ORM session reads, the attribute writes and      *)
(* inserts it accumulates, and the commit that applies them.  The          *)
(* sequential specifications run each operation as one step; SpecRace      *)
(* runs the reads, the flushes and the commit of concurrent calls as       *)
(* separate steps; SpecRequests adds the wait for the operation lock, the  *)
(* rollback of a failing call and the callers that make several calls;     *)
(* SpecSpawner runs the coroutines of core/spawner/kubernetes.py.  The     *)
(* tables start as core/setup.py leaves them at hub start, after the       *)
(* migration of a legacy database by core/quota/migrate.py.                *)
(***************************************************************************)
EXTENDS Integers, Sequences, FiniteSets, TLC

VARIABLES
    user_quota,      \* table quota_user_quota: Seq of [username, balance, unlimited]
    transactions,    \* table quota_transactions: Seq of QuotaTransaction rows
    usage_sessions,  \* table quota_usage_sessions: Seq of UsageSession rows
    now,             \* datetime.now(), in ticks
    ret,             \* what the last completed call returned
    op_lock,         \* QuotaManager._op_lock: 0 when free, else the holding thread
    row_lock,        \* session rows updated by a flush that is not yet committed
    pc,              \* per thread: where its call stands
    loc,             \* per thread: the call's arguments and what its session has read
    spawner          \* the RemoteLabKubeSpawner of one user, and the calls it has made

vars ==
    <<user_quota, transactions, usage_sessions, now, ret, op_lock, row_lock, pc, loc,
      spawner>>

db == <<user_quota, transactions, usage_sessions>>

----------------------------------------------------------------------------
(* Bounds of the model *)

\* ticks per minute: durations are whole minutes of a finer clock
TicksPerMinute == 2
\* the clock stops here
MaxTime == 4
\* rows of quota_usage_sessions
MaxSessions == 1
\* rows of quota_transactions
MaxLog == 2
\* largest magnitude of a stored balance
MaxBalance == 4
\* largest max_duration_minutes handed to cleanup_stale_sessions
MaxStale == 1
\* where the clock stops in Spec and SpecUsage, which meter one minute
MaxMeterTime == 2
----------------------------------------------------------------------------
(* Values *)

\* Python's None; an optional value v is <<v>>
None == <<>>
Some(v) == <<v>>
IsNone(o) == o = <<>>
Val(o) == o[1]

Max(a, b) == IF a >= b THEN a ELSE b
Min(a, b) == IF a <= b THEN a ELSE b

\* usernames are sequences of characters
Alice == <<"a", "l">>
AliceUpper == <<"A", "l">>
Bob == <<"b", "o">>
RawNames == {Alice, AliceUpper, Bob}
\* one spelling per account, one of them not lower case
Names == {AliceUpper, Bob}

\* (mutant) the username is used as it was typed
lower_verbatim(s) == s

\* str.lower(), character by character
LowerChar(c) ==
    CASE c = "A" -> "a"
      [] c = "B" -> "b"
      [] c = "L" -> "l"
      [] c = "O" -> "o"
      [] OTHER -> c
lower(s) == [i \in DOMAIN s |-> LowerChar(s[i])]

ResourceTypes == {"cpu", "gpu"}

\* dict.get(key, default) on a dict modelled as a function
dict_get(d, k, default) == IF k \in DOMAIN d THEN d[k] ELSE default

\* the rate tables the callers pass (quota_rates)
RateTables ==
    { ("cpu" :> 1) @@ ("gpu" :> 2),
      ("cpu" :> 2),
      ("gpu" :> 0),
      <<>> }

\* the two request threads of SpecRace
Threads == {1, 2}

----------------------------------------------------------------------------
(* Rows (core/quota/orm.py) *)

UserQuota(username, balance, unlimited) ==
    [username |-> username, balance |-> balance, unlimited |-> unlimited]

QuotaTransaction(username, amount, ttype, rtype, before, after, descr, by) ==
    [username |-> username, amount |-> amount, transaction_type |-> ttype,
     resource_type |-> rtype, balance_before |-> before, balance_after |-> after,
     description |-> descr, created_by |-> by]

UsageSession(username, rtype, start) ==
    [username |-> username, resource_type |-> rtype, start_time |-> start,
     end_time |-> None, duration_minutes |-> None, quota_consumed |-> None,
     status |-> "active"]

----------------------------------------------------------------------------
(* The ORM session: queries and the unit of work *)

\* session.query(UserQuota).filter(UserQuota.username == username).first():
\* the row id, 0 when there is no row
find_user(users, username) ==
    IF \E i \in DOMAIN users : users[i].username = username
    THEN CHOOSE i \in DOMAIN users :
             /\ users[i].username = username
             /\ \A j \in DOMAIN users : users[j].username = username => i <= j
    ELSE 0

\* an attribute assignment on a loaded row; the ORM emits an UPDATE only for
\* an attribute whose value differs from the loaded one
Write(table, id, attr, loaded, value) ==
    IF loaded = value THEN {}
    ELSE {[table |-> table, id |-> id, attr |-> attr, value |-> value]}

\* a unit of work: attribute UPDATEs, INSERTs and the value the call returns
UnitOfWork(writes, ins_users, ins_sessions, ins_txns, result) ==
    [writes |-> writes, ins_users |-> ins_users, ins_sessions |-> ins_sessions,
     ins_txns |-> ins_txns, result |-> result]

NoWork(result) == UnitOfWork({}, <<>>, <<>>, <<>>, result)

\* UPDATE <table> SET attr = value WHERE id = id, for the writes of one row
apply_row(row, ws) ==
    [a \in DOMAIN row |->
        IF \E w \in ws : w.attr = a
        THEN (CHOOSE w \in ws : w.attr = a).value
        ELSE row[a]]

apply_table(rows, table, writes) ==
    [i \in DOMAIN rows |->
        apply_row(rows[i], {w \in writes : w.table = table /\ w.id = i})]

----------------------------------------------------------------------------
(* QuotaManager: what each operation reads, writes and returns.            *)
(* users and sessions are the tables as the call's ORM session read them.  *)

\* get_balance
get_balance(users, name) ==
    LET i == find_user(users, lower(name))
    IN  IF i # 0 THEN users[i].balance ELSE 0

\* is_unlimited
is_unlimited(users, name) ==
    LET i == find_user(users, lower(name))
    IN  IF i # 0 THEN users[i].unlimited ELSE FALSE

\* (mutant) an account whose balance is 0 is granted the default again
ensure_user_quota_regrant(users, name, default_quota) ==
    LET username == lower(name)
        i == find_user(users, username)
    IN  IF i # 0 /\ (users[i].balance # 0 \/ default_quota <= 0)
        THEN NoWork(users[i].balance)
        ELSE UnitOfWork(
                 IF i # 0 THEN Write("user", i, "balance", users[i].balance, default_quota)
                 ELSE {},
                 IF i # 0 THEN <<>> ELSE <<UserQuota(username, default_quota, FALSE)>>,
                 <<>>,
                 IF default_quota > 0
                 THEN <<QuotaTransaction(username, default_quota, "initial_grant", None,
                            0, default_quota, <<"Default quota for new user">>, None)>>
                 ELSE <<>>,
                 default_quota)

\* ensure_user_quota
ensure_user_quota_uow(users, name, default_quota) ==
    LET username == lower(name)
        i == find_user(users, username)
    IN  IF i # 0
        THEN NoWork(users[i].balance)
        ELSE UnitOfWork({}, <<UserQuota(username, default_quota, FALSE)>>, <<>>,
                 IF default_quota > 0
                 THEN <<QuotaTransaction(username, default_quota, "initial_grant", None,
                            0, default_quota, <<"Default quota for new user">>, None)>>
                 ELSE <<>>,
                 default_quota)

\* (mutant) nothing is logged when the flag already has the value
set_unlimited_quiet(users, name, unlimited, admin) ==
    LET username == lower(name)
        i == find_user(users, username)
        balance == IF i # 0 THEN users[i].balance ELSE 0
    IN  IF i # 0 /\ users[i].unlimited = unlimited
        THEN NoWork(None)
        ELSE UnitOfWork(
                 IF i # 0 THEN Write("user", i, "unlimited", users[i].unlimited, unlimited)
                 ELSE {},
                 IF i # 0 THEN <<>> ELSE <<UserQuota(username, 0, unlimited)>>,
                 <<>>,
                 <<QuotaTransaction(username, 0,
                       IF unlimited THEN "set_unlimited" ELSE "unset_unlimited", None,
                       balance, balance,
                       <<"Unlimited", IF unlimited THEN "enabled" ELSE "disabled">>, admin)>>,
                 None)

\* set_unlimited
set_unlimited_uow(users, name, unlimited, admin) ==
    LET username == lower(name)
        i == find_user(users, username)
        balance == IF i # 0 THEN users[i].balance ELSE 0
    IN  UnitOfWork(
            IF i # 0 THEN Write("user", i, "unlimited", users[i].unlimited, unlimited) ELSE {},
            IF i # 0 THEN <<>> ELSE <<UserQuota(username, 0, unlimited)>>,
            <<>>,
            <<QuotaTransaction(username, 0,
                  IF unlimited THEN "set_unlimited" ELSE "unset_unlimited", None,
                  balance, balance,
                  <<"Unlimited", IF unlimited THEN "enabled" ELSE "disabled">>, admin)>>,
            None)

Abs(n) == IF n >= 0 THEN n ELSE -n

\* (mutant) the audit row takes 0 as the balance before the call
loaded_balance_zero(users, i) == 0

\* balance_before of an admin mutation: the balance of the loaded row, 0 when
\* the row is created by the call
loaded_balance(users, i) == IF i # 0 THEN users[i].balance ELSE 0

\* add_quota
add_quota_uow(users, name, amount, description, admin) ==
    LET username == lower(name)
        i == find_user(users, username)
        balance_before == loaded_balance(users, i)
        balance_after == balance_before + amount
    IN  UnitOfWork(
            IF i # 0 THEN Write("user", i, "balance", users[i].balance, balance_after) ELSE {},
            IF i # 0 THEN <<>> ELSE <<UserQuota(username, balance_after, FALSE)>>,
            <<>>,
            <<QuotaTransaction(username, amount,
                  IF amount >= 0 THEN "add" ELSE "deduct", None,
                  balance_before, balance_after,
                  IF description # "" THEN <<description>>
                  ELSE <<IF amount >= 0 THEN "Added" ELSE "Deducted", Abs(amount)>>,
                  admin)>>,
            balance_after)

\* (mutant) the Transaction records the new balance as its amount
set_balance_amount_absolute(users, name, new_balance, admin) ==
    LET username == lower(name)
        i == find_user(users, username)
        balance_before == loaded_balance(users, i)
    IN  UnitOfWork(
            IF i # 0 THEN Write("user", i, "balance", users[i].balance, new_balance) ELSE {},
            IF i # 0 THEN <<>> ELSE <<UserQuota(username, new_balance, FALSE)>>,
            <<>>,
            <<QuotaTransaction(username, new_balance, "set", None,
                  balance_before, new_balance, <<"Balance set to", new_balance>>, admin)>>,
            new_balance)

\* set_balance
set_balance_uow(users, name, new_balance, admin) ==
    LET username == lower(name)
        i == find_user(users, username)
        balance_before == loaded_balance(users, i)
    IN  UnitOfWork(
            IF i # 0 THEN Write("user", i, "balance", users[i].balance, new_balance) ELSE {},
            IF i # 0 THEN <<>> ELSE <<UserQuota(username, new_balance, FALSE)>>,
            <<>>,
            <<QuotaTransaction(username, new_balance - balance_before, "set", None,
                  balance_before, new_balance, <<"Balance set to", new_balance>>, admin)>>,
            new_balance)

\* (mutant) a usage deduction that is not clamped at 0
usage_balance_unclamped(balance_before, amount) == balance_before - amount

\* the balance a usage deduction leaves
usage_balance(balance_before, amount) == Max(0, balance_before - amount)

\* (mutant) a deduction larger than the balance is refused
deduct_quota_refusing(users, name, amount, resource_type) ==
    LET username == lower(name)
        i == find_user(users, username)
    IN  IF i = 0 THEN NoWork(0)
        ELSE IF users[i].unlimited \/ users[i].balance < amount THEN NoWork(users[i].balance)
        ELSE UnitOfWork(
                 Write("user", i, "balance", users[i].balance, users[i].balance - amount),
                 <<>>, <<>>,
                 <<QuotaTransaction(username, -amount, "usage", Some(resource_type),
                       users[i].balance, users[i].balance - amount,
                       IF resource_type # "" THEN <<"Usage", resource_type>>
                       ELSE <<"Usage deduction">>,
                       None)>>,
                 users[i].balance - amount)

\* deduct_quota
deduct_quota_uow(users, name, amount, resource_type) ==
    LET username == lower(name)
        i == find_user(users, username)
    IN  IF i = 0 THEN NoWork(0)
        ELSE IF users[i].unlimited THEN NoWork(users[i].balance)
        ELSE LET balance_before == users[i].balance
                 balance_after == usage_balance(balance_before, amount)
             IN  UnitOfWork(
                     Write("user", i, "balance", balance_before, balance_after),
                     <<>>, <<>>,
                     <<QuotaTransaction(username, -amount, "usage", Some(resource_type),
                           balance_before, balance_after,
                           IF resource_type # "" THEN <<"Usage", resource_type>>
                           ELSE <<"Usage deduction">>,
                           None)>>,
                     balance_after)

\* start_session
start_session_uow(sessions, name, resource_type, t) ==
    UnitOfWork({}, <<>>, <<UsageSession(lower(name), resource_type, t)>>, <<>>,
               Len(sessions) + 1)

\* int((end_time - start_time).total_seconds() / 60)
minutes_between(start, end) == (end - start) \div TicksPerMinute

\* the writes that close a loaded session row
close_writes(sid, row, end_time, duration_minutes, quota_consumed, status) ==
    Write("session", sid, "end_time", row.end_time, Some(end_time))
    \cup Write("session", sid, "duration_minutes", row.duration_minutes, Some(duration_minutes))
    \cup (IF IsNone(quota_consumed) THEN {}
          ELSE Write("session", sid, "quota_consumed", row.quota_consumed, quota_consumed))
    \cup Write("session", sid, "status", row.status, status)

\* (mutant) a session can be closed whatever its status
closable_any(sessions, session_id) == session_id \in DOMAIN sessions

\* end_session, end_usage_session: the session exists and is still active
closable(sessions, session_id) ==
    session_id \in DOMAIN sessions /\ sessions[session_id].status = "active"

\* end_session
end_session_uow(sessions, t, session_id, quota_consumed) ==
    IF ~closable(sessions, session_id)
    THEN NoWork(None)
    ELSE LET row == sessions[session_id]
             duration == minutes_between(row.start_time, t)
         IN  UnitOfWork(
                 close_writes(session_id, row, t, duration, Some(quota_consumed), "completed"),
                 <<>>, <<>>, <<>>,
                 [session_id |-> session_id, username |-> row.username,
                  resource_type |-> row.resource_type, duration_minutes |-> duration,
                  quota_consumed |-> quota_consumed])

\* (mutant) the unlimited flag is not looked at when a session is charged
charges_unlimited_too(users, username, quota_consumed) ==
    /\ quota_consumed > 0
    /\ find_user(users, username) # 0

\* end_usage_session: whether the closed session is charged to the account
charges(users, username, quota_consumed) ==
    /\ quota_consumed > 0
    /\ find_user(users, username) # 0
    /\ ~users[find_user(users, username)].unlimited

\* end_usage_session: the rate of the session's resource type
session_rate(quota_rates, resource_type) == dict_get(quota_rates, resource_type, 1)

\* end_usage_session; users is read after the session row has been flushed
end_usage_session_uow(users, sessions, t, session_id, quota_rates) ==
    IF ~closable(sessions, session_id)
    THEN NoWork(<<0, 0>>)
    ELSE LET row == sessions[session_id]
             duration_minutes == minutes_between(row.start_time, t)
             rate == session_rate(quota_rates, row.resource_type)
             quota_consumed == duration_minutes * rate
             i == find_user(users, row.username)
             charge == charges(users, row.username, quota_consumed)
             balance_before == IF charge THEN users[i].balance ELSE 0
             balance_after == usage_balance(balance_before, quota_consumed)
         IN  UnitOfWork(
                 close_writes(session_id, row, t, duration_minutes,
                              Some(quota_consumed), "completed")
                 \cup (IF charge
                       THEN Write("user", i, "balance", balance_before, balance_after)
                       ELSE {}),
                 <<>>, <<>>,
                 IF charge
                 THEN <<QuotaTransaction(row.username, -quota_consumed, "usage",
                            Some(row.resource_type), balance_before, balance_after,
                            <<"Session", session_id, duration_minutes, rate>>, None)>>
                 ELSE <<>>,
                 <<duration_minutes, quota_consumed>>)

\* cleanup_stale_sessions: the cutoff, and the rows the query returns
cutoff_time(t, max_duration_minutes) == t - max_duration_minutes * TicksPerMinute

\* (mutant) the query does not filter on status
stale_query_any_status(sessions, t, max_duration_minutes) ==
    {i \in DOMAIN sessions :
        sessions[i].start_time < cutoff_time(t, max_duration_minutes)}

stale_query(sessions, t, max_duration_minutes) ==
    {i \in DOMAIN sessions :
        /\ sessions[i].status = "active"
        /\ sessions[i].start_time < cutoff_time(t, max_duration_minutes)}

\* cleanup_stale_sessions: the rows of the query the loop does not skip
\* (duration is measured from start_time to the cutoff, in minutes)
stale_cleaned(sessions, t, max_duration_minutes) ==
    {i \in stale_query(sessions, t, max_duration_minutes) :
        ~(cutoff_time(t, max_duration_minutes) - sessions[i].start_time
              < max_duration_minutes * TicksPerMinute)}

stale_duration(row, t, max_duration_minutes) ==
    Min(minutes_between(row.start_time, cutoff_time(t, max_duration_minutes)),
        max_duration_minutes)

\* the ids 1..n that are in S, in increasing order
ids_in(n, S) == SelectSeq([i \in 1..n |-> i], LAMBDA i : i \in S)

\* (mutant) the reclaimed session is given its duration as quota_consumed
cleanup_stale_sessions_consumed(sessions, t, max_duration_minutes) ==
    LET cleaned == stale_cleaned(sessions, t, max_duration_minutes)
        order == ids_in(Len(sessions), cleaned)
    IN  UnitOfWork(
            UNION {close_writes(i, sessions[i], cutoff_time(t, max_duration_minutes),
                                stale_duration(sessions[i], t, max_duration_minutes),
                                Some(stale_duration(sessions[i], t, max_duration_minutes)),
                                "cleaned_up") : i \in cleaned},
            <<>>, <<>>, <<>>,
            [k \in DOMAIN order |->
                [session_id |-> order[k],
                 username |-> sessions[order[k]].username,
                 resource_type |-> sessions[order[k]].resource_type,
                 duration_minutes |->
                     stale_duration(sessions[order[k]], t, max_duration_minutes)]])

\* cleanup_stale_sessions
cleanup_stale_sessions_uow(sessions, t, max_duration_minutes) ==
    LET cleaned == stale_cleaned(sessions, t, max_duration_minutes)
        order == ids_in(Len(sessions), cleaned)
    IN  UnitOfWork(
            UNION {close_writes(i, sessions[i], cutoff_time(t, max_duration_minutes),
                                stale_duration(sessions[i], t, max_duration_minutes),
                                None, "cleaned_up") : i \in cleaned},
            <<>>, <<>>, <<>>,
            [k \in DOMAIN order |->
                [session_id |-> order[k],
                 username |-> sessions[order[k]].username,
                 resource_type |-> sessions[order[k]].resource_type,
                 duration_minutes |->
                     stale_duration(sessions[order[k]], t, max_duration_minutes)]])

----------------------------------------------------------------------------
(* Batch refresh *)

\* a username pattern is a sequence of tokens: a character, "." (any
\* character) or "[" (an unterminated set, which re.compile rejects)
re_error(pattern) == \E k \in DOMAIN pattern : pattern[k] = "["

\* re.match(pattern, username, re.IGNORECASE): a match at the start
re_match(pattern, username) ==
    /\ Len(pattern) <= Len(username)
    /\ \A k \in DOMAIN pattern :
           pattern[k] = "." \/ LowerChar(pattern[k]) = LowerChar(username[k])

\* targets with the defaults of targets.get(...)
Targets(includeUnlimited, balanceBelow, balanceAbove, includeUsers, excludeUsers, pattern) ==
    [includeUnlimited |-> includeUnlimited, balanceBelow |-> balanceBelow,
     balanceAbove |-> balanceAbove, includeUsers |-> includeUsers,
     excludeUsers |-> excludeUsers, usernamePattern |-> pattern]

NoTargets == Targets(FALSE, None, None, <<>>, <<>>, None)

lowered(names) == {lower(names[k]) : k \in DOMAIN names}

\* (mutant) balanceBelow lets through a balance equal to it
match_targets_below_inclusive(username, balance, unlimited, targets) ==
    IF unlimited /\ ~targets.includeUnlimited THEN FALSE
    ELSE IF ~IsNone(targets.balanceBelow) /\ balance > Val(targets.balanceBelow) THEN FALSE
    ELSE IF ~IsNone(targets.balanceAbove) /\ balance <= Val(targets.balanceAbove) THEN FALSE
    ELSE IF targets.includeUsers # <<>> /\ username \notin lowered(targets.includeUsers)
         THEN FALSE
    ELSE IF username \in lowered(targets.excludeUsers) THEN FALSE
    ELSE IF ~IsNone(targets.usernamePattern) /\ Val(targets.usernamePattern) # <<>>
         THEN IF re_error(Val(targets.usernamePattern)) THEN FALSE
              ELSE re_match(Val(targets.usernamePattern), username)
    ELSE TRUE

\* (mutant) a pattern that does not compile lets every username through
match_targets_bad_pattern_all(username, balance, unlimited, targets) ==
    IF unlimited /\ ~targets.includeUnlimited THEN FALSE
    ELSE IF ~IsNone(targets.balanceBelow) /\ balance >= Val(targets.balanceBelow) THEN FALSE
    ELSE IF ~IsNone(targets.balanceAbove) /\ balance <= Val(targets.balanceAbove) THEN FALSE
    ELSE IF targets.includeUsers # <<>> /\ username \notin lowered(targets.includeUsers)
         THEN FALSE
    ELSE IF username \in lowered(targets.excludeUsers) THEN FALSE
    ELSE IF ~IsNone(targets.usernamePattern) /\ Val(targets.usernamePattern) # <<>>
         THEN IF re_error(Val(targets.usernamePattern)) THEN TRUE
              ELSE re_match(Val(targets.usernamePattern), username)
    ELSE TRUE

\* _match_targets
match_targets(username, balance, unlimited, targets) ==
    IF unlimited /\ ~targets.includeUnlimited THEN FALSE
    ELSE IF ~IsNone(targets.balanceBelow) /\ balance >= Val(targets.balanceBelow) THEN FALSE
    ELSE IF ~IsNone(targets.balanceAbove) /\ balance <= Val(targets.balanceAbove) THEN FALSE
    ELSE IF targets.includeUsers # <<>> /\ username \notin lowered(targets.includeUsers)
         THEN FALSE
    ELSE IF username \in lowered(targets.excludeUsers) THEN FALSE
    ELSE IF ~IsNone(targets.usernamePattern) /\ Val(targets.usernamePattern) # <<>>
         THEN IF re_error(Val(targets.usernamePattern)) THEN FALSE
              ELSE re_match(Val(targets.usernamePattern), username)
    ELSE TRUE

\* (mutant) the floor of a negative amount is 0 whatever min_balance is
refresh_balance_floor_zero(current, amount, action, max_balance, min_balance) ==
    IF action = "add"
    THEN IF amount > 0 /\ ~IsNone(max_balance)
         THEN Min(current + amount, Val(max_balance))
         ELSE IF amount < 0
              THEN Max(current + amount, 0)
              ELSE current + amount
    ELSE amount

\* batch_refresh_quota: the balance computed for a matching account
\* (min_balance is None when the caller gave none)
refresh_balance(current, amount, action, max_balance, min_balance) ==
    IF action = "add"
    THEN IF amount > 0 /\ ~IsNone(max_balance)
         THEN Min(current + amount, Val(max_balance))
         ELSE IF amount < 0
              THEN Max(current + amount, IF IsNone(min_balance) THEN 0 ELSE Val(min_balance))
              ELSE current + amount
    ELSE amount

RECURSIVE SumSeq(_)
SumSeq(s) == IF s = <<>> THEN 0 ELSE Head(s) + SumSeq(Tail(s))

\* (mutant) every matching account is updated and logged, also when its
\* balance stays the same
batch_refresh_quota_logging_all(users, amount, action, max_balance, min_balance, targets, rule_name) ==
    IF action \notin {"add", "set"}
    THEN NoWork([error |-> <<"Invalid action", action>>, rule_name |-> rule_name])
    ELSE LET new(i) == refresh_balance(users[i].balance, amount, action,
                                       max_balance, min_balance)
             matching == {i \in DOMAIN users :
                             match_targets(users[i].username, users[i].balance,
                                           users[i].unlimited, targets)}
             order == ids_in(Len(users), matching)
             change == [k \in DOMAIN order |-> new(order[k]) - users[order[k]].balance]
         IN  UnitOfWork(
                 UNION {Write("user", i, "balance", users[i].balance, new(i)) : i \in matching},
                 <<>>, <<>>,
                 [k \in DOMAIN order |->
                     QuotaTransaction(users[order[k]].username, change[k], "auto_refresh",
                         None, users[order[k]].balance, new(order[k]),
                         <<"Auto", action, rule_name>>, None)],
                 [users_updated |-> Len(order),
                  total_change |-> SumSeq(change),
                  skipped |-> Len(users) - Len(order),
                  action |-> action, rule_name |-> rule_name])

\* (mutant) an action that is not 'add' is taken as 'set'
batch_refresh_quota_any_action(users, amount, action, max_balance, min_balance, targets, rule_name) ==
    LET new(i) == refresh_balance(users[i].balance, amount, action,
                                  max_balance, min_balance)
        matching == {i \in DOMAIN users :
                        match_targets(users[i].username, users[i].balance,
                                      users[i].unlimited, targets)}
        updated == {i \in matching : new(i) # users[i].balance}
        order == ids_in(Len(users), updated)
        change == [k \in DOMAIN order |-> new(order[k]) - users[order[k]].balance]
    IN  UnitOfWork(
            UNION {Write("user", i, "balance", users[i].balance, new(i)) : i \in updated},
            <<>>, <<>>,
            [k \in DOMAIN order |->
                QuotaTransaction(users[order[k]].username, change[k], "auto_refresh",
                    None, users[order[k]].balance, new(order[k]),
                    <<"Auto", action, rule_name>>, None)],
            [users_updated |-> Len(order),
             total_change |-> SumSeq(change),
             skipped |-> Len(users) - Len(order),
             action |-> action, rule_name |-> rule_name])

\* (mutant) a matching account whose balance stays the same is left out of
\* the skipped count
batch_refresh_quota_unchanged_uncounted(users, amount, action, max_balance, min_balance, targets, rule_name) ==
    IF action \notin {"add", "set"}
    THEN NoWork([error |-> <<"Invalid action", action>>, rule_name |-> rule_name])
    ELSE LET new(i) == refresh_balance(users[i].balance, amount, action,
                                       max_balance, min_balance)
             matching == {i \in DOMAIN users :
                             match_targets(users[i].username, users[i].balance,
                                           users[i].unlimited, targets)}
             updated == {i \in matching : new(i) # users[i].balance}
             order == ids_in(Len(users), updated)
             change == [k \in DOMAIN order |-> new(order[k]) - users[order[k]].balance]
         IN  UnitOfWork(
                 UNION {Write("user", i, "balance", users[i].balance, new(i)) : i \in updated},
                 <<>>, <<>>,
                 [k \in DOMAIN order |->
                     QuotaTransaction(users[order[k]].username, change[k], "auto_refresh",
                         None, users[order[k]].balance, new(order[k]),
                         <<"Auto", action, rule_name>>, None)],
                 [users_updated |-> Len(order),
                  total_change |-> SumSeq(change),
                  skipped |-> Len(users) - Cardinality(matching),
                  action |-> action, rule_name |-> rule_name])

\* batch_refresh_quota
batch_refresh_quota_uow(users, amount, action, max_balance, min_balance, targets, rule_name) ==
    IF action \notin {"add", "set"}
    THEN NoWork([error |-> <<"Invalid action", action>>, rule_name |-> rule_name])
    ELSE LET new(i) == refresh_balance(users[i].balance, amount, action,
                                       max_balance, min_balance)
             matching == {i \in DOMAIN users :
                             match_targets(users[i].username, users[i].balance,
                                           users[i].unlimited, targets)}
             updated == {i \in matching : new(i) # users[i].balance}
             order == ids_in(Len(users), updated)
             change == [k \in DOMAIN order |-> new(order[k]) - users[order[k]].balance]
         IN  UnitOfWork(
                 UNION {Write("user", i, "balance", users[i].balance, new(i)) : i \in updated},
                 <<>>, <<>>,
                 [k \in DOMAIN order |->
                     QuotaTransaction(users[order[k]].username, change[k], "auto_refresh",
                         None, users[order[k]].balance, new(order[k]),
                         <<"Auto", action, rule_name>>, None)],
                 [users_updated |-> Len(order),
                  total_change |-> SumSeq(change),
                  skipped |-> Len(users) - Len(order),
                  action |-> action, rule_name |-> rule_name])

----------------------------------------------------------------------------
(* Quota gate *)

\* can_start_container: the rate of a resource type
gate_rate(quota_rates, accelerator_type) ==
    dict_get(quota_rates, accelerator_type, dict_get(quota_rates, "cpu", 1))

\* RemoteLabKubeSpawner.get_quota_rate; accelerator_type is "" when the
\* spawner has none
get_quota_rate(quota_rates, accelerator_type) ==
    IF accelerator_type = "" THEN dict_get(quota_rates, "cpu", 1)
    ELSE dict_get(quota_rates, accelerator_type, dict_get(quota_rates, "cpu", 1))

\* (mutant) the balance is checked before the unlimited flag
can_start_result_balance_first(balance, unlimited, accelerator_type, runtime_minutes, quota_rates) ==
    LET rate == gate_rate(quota_rates, accelerator_type)
        estimated_cost == runtime_minutes * rate
    IN  IF balance <= 0
        THEN <<FALSE, <<"Insufficient quota", balance>>, estimated_cost>>
        ELSE IF unlimited THEN <<TRUE, <<"Unlimited quota">>, 0>>
        ELSE IF balance < estimated_cost
             THEN <<FALSE,
                    <<"Insufficient quota for", runtime_minutes, balance, estimated_cost,
                      IF rate > 0 THEN balance \div rate ELSE 0>>,
                    estimated_cost>>
        ELSE <<TRUE, <<"OK", balance, estimated_cost>>, estimated_cost>>

\* (mutant) the affordable minutes are rounded up
max_runtime_rounded_up(balance, rate) ==
    IF rate > 0 THEN (balance + rate - 1) \div rate ELSE 0

\* can_start_container: max_runtime, the minutes the balance affords
max_runtime(balance, rate) == IF rate > 0 THEN balance \div rate ELSE 0

\* (mutant) a balance that is not positive is not refused as such
can_start_result_cost_only(balance, unlimited, accelerator_type, runtime_minutes, quota_rates) ==
    LET rate == gate_rate(quota_rates, accelerator_type)
        estimated_cost == runtime_minutes * rate
    IN  IF unlimited THEN <<TRUE, <<"Unlimited quota">>, 0>>
        ELSE IF balance < estimated_cost
             THEN <<FALSE,
                    <<"Insufficient quota for", runtime_minutes, balance, estimated_cost,
                      max_runtime(balance, rate)>>,
                    estimated_cost>>
        ELSE <<TRUE, <<"OK", balance, estimated_cost>>, estimated_cost>>

\* can_start_container, after ensure_user_quota returned balance and
\* is_unlimited returned unlimited
can_start_result(balance, unlimited, accelerator_type, runtime_minutes, quota_rates) ==
    LET rate == gate_rate(quota_rates, accelerator_type)
        estimated_cost == runtime_minutes * rate
    IN  IF unlimited THEN <<TRUE, <<"Unlimited quota">>, 0>>
        ELSE IF balance <= 0
             THEN <<FALSE, <<"Insufficient quota", balance>>, estimated_cost>>
        ELSE IF balance < estimated_cost
             THEN <<FALSE,
                    <<"Insufficient quota for", runtime_minutes, balance, estimated_cost,
                      max_runtime(balance, rate)>>,
                    estimated_cost>>
        ELSE <<TRUE, <<"OK", balance, estimated_cost>>, estimated_cost>>

\* (mutant) the gate reserves the estimated cost of a start it allows
can_start_container_reserving(users, name, accelerator_type, runtime_minutes, quota_rates, default_quota) ==
    LET e == ensure_user_quota_uow(users, name, default_quota)
        after == users \o e.ins_users
        i == find_user(users, lower(name))
        result == can_start_result(e.result, is_unlimited(after, name), accelerator_type,
                                   runtime_minutes, quota_rates)
    IN  [e EXCEPT !.result = result,
                  !.writes = IF i # 0 /\ result[1]
                             THEN Write("user", i, "balance", users[i].balance,
                                        users[i].balance - result[3])
                             ELSE {}]

\* can_start_container: ensure_user_quota commits, then is_unlimited reads
can_start_container_uow(users, name, accelerator_type, runtime_minutes, quota_rates, default_quota) ==
    LET e == ensure_user_quota_uow(users, name, default_quota)
        after == users \o e.ins_users
    IN  [e EXCEPT !.result =
            can_start_result(e.result, is_unlimited(after, name), accelerator_type,
                             runtime_minutes, quota_rates)]

----------------------------------------------------------------------------
(* session_scope: commit *)

\* the tables as one value
Tables(users, sessions, txns) == [users |-> users, sessions |-> sessions, txns |-> txns]

\* (mutant) the log keeps only the latest Transaction of each account
committed_latest_only(d, w) ==
    Tables(apply_table(d.users, "user", w.writes) \o w.ins_users,
           apply_table(d.sessions, "session", w.writes) \o w.ins_sessions,
           SelectSeq(d.txns,
               LAMBDA x : \A k \in DOMAIN w.ins_txns : w.ins_txns[k].username # x.username)
               \o w.ins_txns)

\* the tables after the UPDATEs and INSERTs of a unit of work
committed(d, w) ==
    Tables(apply_table(d.users, "user", w.writes) \o w.ins_users,
           apply_table(d.sessions, "session", w.writes) \o w.ins_sessions,
           d.txns \o w.ins_txns)

\* session.commit(): the unit of work reaches the tables
commit(w) ==
    LET d == committed(Tables(user_quota, usage_sessions, transactions), w)
    IN  /\ user_quota' = d.users
        /\ usage_sessions' = d.sessions
        /\ transactions' = d.txns

\* the tables after the commit stay within the bounds of the model
InBounds(w) ==
    /\ w.ins_txns # <<>> => Len(transactions) + Len(w.ins_txns) <= MaxLog
    /\ w.ins_sessions # <<>> => Len(usage_sessions) + Len(w.ins_sessions) <= MaxSessions
    /\ \A x \in w.writes : x.attr = "balance" =>
           (x.value <= MaxBalance /\ x.value >= -MaxBalance)
    /\ \A k \in DOMAIN w.ins_users :
           (w.ins_users[k].balance <= MaxBalance /\ w.ins_users[k].balance >= -MaxBalance)

\* a RemoteLabKubeSpawner: its configuration, the attributes start and stop
\* set, where its coroutines stand (starting: the locals of the start() that
\* is at "await super().start()"; stops_scheduled: stop() coroutines
\* check_timeout has created; stops_awaiting: stop() coroutines at "await
\* super().stop()"), the timer handle self.check_timer refers to and when it
\* is due, the due times of the pending timers of the event loop that no
\* attribute refers to any more (loop_timers), the calls it has made so far
\* and the error its last start() raised
Spawner(user, quota_enabled, single_node_mode, quota_rates, default_quota) ==
    [user |-> user, quota_enabled |-> quota_enabled,
     single_node_mode |-> single_node_mode, quota_rates |-> quota_rates,
     default_quota |-> default_quota,
     usage_session_id |-> None, has_unlimited_quota |-> FALSE,
     start_time |-> None, shutdown_time |-> None, check_timer |-> "none",
     check_at |-> 0, loop_timers |-> <<>>,
     starting |-> None, stops_scheduled |-> 0, stops_awaiting |-> 0,
     spawns |-> 0, stops |-> 0, calls |-> <<>>, raised |-> None]

\* the specifications of the QuotaManager alone have a spawner that does nothing
NoSpawner == Spawner(<<>>, FALSE, FALSE, <<>>, 0)

\* what a call returned: the operation and the value
Returned(op, val) == [op |-> op, val |-> val]

\* a call that runs from its first read to its commit with no other call between
Call(op, w) ==
    /\ \A t \in Threads : pc[t] = "idle"
    /\ InBounds(w)
    /\ commit(w)
    /\ ret' = Returned(op, w.result)
    /\ UNCHANGED <<now, op_lock, row_lock, pc, loc, spawner>>

----------------------------------------------------------------------------
(* Inputs *)

DefaultQuotas == {0, 2}
AddAmounts == {-3, 2}
SetAmounts == {-1, 3}
UsageAmounts == {1, 3}
DeductAmounts == {0, 1, 3}
SessionCosts == {0, 3}
Minutes == {0, 1, 3}
Root == Some("root")
StaleLimits == 0..MaxStale

\* the arguments of a batch_refresh_quota call
Refresh(amount, action, max_balance, min_balance, targets) ==
    [amount |-> amount, action |-> action, max_balance |-> max_balance,
     min_balance |-> min_balance, targets |-> targets]

RefreshCalls ==
    { Refresh(2, "add", Some(3), None, Targets(TRUE, None, None, <<>>, <<>>, None)),
      Refresh(-2, "add", None, Some(1), Targets(FALSE, None, None, <<>>, <<Bob>>, Some(<<"A">>))),
      Refresh(-1, "set", None, None, Targets(FALSE, Some(2), None, <<>>, <<>>, None)),
      Refresh(2, "reset", None, None, NoTargets) }

----------------------------------------------------------------------------
(* The operations, each as one step *)

GetBalance(name) ==
    Call("get_balance", NoWork(get_balance(user_quota, name)))

EnsureUserQuota(name, default_quota) ==
    Call("ensure_user_quota",
         ensure_user_quota_uow(user_quota, name, default_quota))

SetUnlimited(name, unlimited, admin) ==
    Call("set_unlimited",
         set_unlimited_uow(user_quota, name, unlimited, admin))

AddQuota(name, amount, admin) ==
    Call("add_quota", add_quota_uow(user_quota, name, amount, "", admin))

SetBalance(name, new_balance, admin) ==
    Call("set_balance",
         set_balance_uow(user_quota, name, new_balance, admin))

DeductQuota(name, amount, resource_type) ==
    Call("deduct_quota",
         deduct_quota_uow(user_quota, name, amount, resource_type))

StartSession(name, resource_type) ==
    Call("start_session",
         start_session_uow(usage_sessions, name, resource_type, now))

EndSession(session_id, quota_consumed) ==
    Call("end_session",
         end_session_uow(usage_sessions, now, session_id, quota_consumed))

EndUsageSession(session_id, quota_rates) ==
    Call("end_usage_session",
         end_usage_session_uow(user_quota, usage_sessions, now, session_id, quota_rates))

CleanupStaleSessions(max_duration_minutes) ==
    Call("cleanup_stale_sessions",
         cleanup_stale_sessions_uow(usage_sessions, now, max_duration_minutes))

BatchRefreshQuota(c) ==
    Call("batch_refresh_quota",
         batch_refresh_quota_uow(user_quota, c.amount, c.action, c.max_balance,
                                 c.min_balance, c.targets, "manual"))

CanStartContainer(name, accelerator_type, runtime_minutes, quota_rates, default_quota) ==
    Call("can_start_container",
         can_start_container_uow(user_quota, name, accelerator_type, runtime_minutes,
                                 quota_rates, default_quota))

\* time passes: datetime.now(), time.time() and the clock of the event loop
Tick ==
    /\ now < MaxTime
    /\ now' = now + 1
    /\ UNCHANGED <<db, ret, op_lock, row_lock, pc, loc, spawner>>

----------------------------------------------------------------------------
(* Hub start (core/setup.py): the tables are created empty, the rows of a  *)
(* legacy quota.sqlite are migrated into them when there is one, and the   *)
(* QuotaManager is made and sweeps the stale sessions.                     *)

\* the rows of a legacy quota.sqlite
LegacyDatabase(users, txns, sessions) ==
    [users |-> users, txns |-> txns, sessions |-> sessions]

\* migrate_quota_data, user_quota -> quota_user_quota: a row is looked up by
\* the username as the legacy row has it; an existing row takes the higher
\* balance and the unlimited flag, a missing one is added
RECURSIVE migrate_users(_, _)
migrate_users(rows, users) ==
    IF rows = <<>> THEN users
    ELSE LET row == Head(rows)
             existing == find_user(users, row.username)
         IN  migrate_users(Tail(rows),
                 IF existing # 0
                 THEN [users EXCEPT
                          ![existing].balance = IF row.balance > @ THEN row.balance ELSE @,
                          ![existing].unlimited = IF row.unlimited THEN TRUE ELSE @]
                 ELSE Append(users, UserQuota(row.username, row.balance, row.unlimited)))

\* migrate_quota_data: old is None when check_migration_needed() is false
\* (no legacy file, or the marker of a migration already made)
migrate_quota_data(old, d) ==
    IF IsNone(old) THEN d
    ELSE Tables(migrate_users(Val(old).users, d.users),
                d.sessions \o Val(old).sessions,
                d.txns \o Val(old).txns)

\* migrate_quota_data: the statistics it returns
migrate_stats(old) ==
    IF IsNone(old)
    THEN [status |-> "skipped", reason |-> "Migration not needed"]
    ELSE [status |-> "success", users_migrated |-> Len(Val(old).users),
          transactions_migrated |-> Len(Val(old).txns),
          sessions_migrated |-> Len(Val(old).sessions), errors |-> <<>>]

\* cleanup_stale_sessions(max_duration_minutes=480)
DefaultMaxDuration == 480

\* setup_hub: migrate_quota_data if needed, then init_quota_manager() and
\* cleanup_stale_sessions()
setup_hub(old, t) ==
    LET migrated == migrate_quota_data(old, Tables(<<>>, <<>>, <<>>))
    IN  committed(migrated,
                  cleanup_stale_sessions_uow(migrated.sessions, t, DefaultMaxDuration))

\* the legacy files a hub may start with: none; an account with a balance and
\* no Transaction; an account with its grant, its initial_grant Transaction
\* and a session that is still active.  The legacy manager
\* (runtime/jupyterhub/files/hub/quota_manager.py) lower-cases the username
\* before every insert, so the names in the file are in lower case
LegacyDatabases ==
    { None,
      Some(LegacyDatabase(<<UserQuota(Alice, 3, FALSE)>>, <<>>, <<>>)),
      Some(LegacyDatabase(
               <<UserQuota(Alice, 3, FALSE)>>,
               <<QuotaTransaction(Alice, 3, "initial_grant", None, 0, 3,
                     <<"Default quota for new user">>, None)>>,
               <<UsageSession(Alice, "gpu", 0)>>)) }

----------------------------------------------------------------------------
(* Spec: the operations that write, called one after the other *)

Init ==
    /\ \E old \in LegacyDatabases :
          /\ user_quota = setup_hub(old, 0).users
          /\ usage_sessions = setup_hub(old, 0).sessions
          /\ transactions = setup_hub(old, 0).txns
          /\ ret = Returned("setup_hub", migrate_stats(old))
    /\ now = 0
    /\ op_lock = 0
    /\ row_lock = {}
    /\ pc = [t \in Threads |-> "idle"]
    /\ loc = [t \in Threads |-> None]
    /\ spawner = NoSpawner

\* Bob's account is made by its grant and changed by the refreshes only
Next ==
    \/ \E n \in Names, d \in DefaultQuotas : EnsureUserQuota(n, d)
    \/ \E u \in BOOLEAN : SetUnlimited(AliceUpper, u, Root)
    \/ \E m \in AddAmounts : AddQuota(AliceUpper, m, Root)
    \/ \E m \in SetAmounts : SetBalance(AliceUpper, m, Root)
    \/ \E m \in UsageAmounts : DeductQuota(AliceUpper, m, "gpu")
    \/ StartSession(AliceUpper, "gpu")
    \/ \E i \in 1..MaxSessions, q \in SessionCosts : EndSession(i, q)
    \/ \E i \in 1..MaxSessions, q \in RateTables : EndUsageSession(i, q)
    \/ \E m \in StaleLimits : CleanupStaleSessions(m)
    \/ \E c \in RefreshCalls : BatchRefreshQuota(c)
    \/ (now < MaxMeterTime /\ Tick)

Spec == Init /\ [][Next]_vars

----------------------------------------------------------------------------
(* Reading the tables *)

\* the lower-case account names of the model
Accounts == {lower(n) : n \in RawNames}

\* the usage Transactions end_usage_session wrote for a session
session_charges(txns, session_id) ==
    {k \in DOMAIN txns :
        /\ txns[k].transaction_type = "usage"
        /\ txns[k].description[1] = "Session"
        /\ txns[k].description[2] = session_id}

\* the rows a step appended to the log
appended(old, new) == SubSeq(new, Len(old) + 1, Len(new))

of_account(txns, username) == SelectSeq(txns, LAMBDA x : x.username = username)

----------------------------------------------------------------------------
(* Claims checked under Spec *)

\* C2: once end_usage_session has closed a session, every later
\* end_usage_session call on that id returns (0, 0) and changes no session
\* field, no balance and no log entry; so over calls made one after the other
\* a session gets at most one usage Transaction.
C2_EndSessionIdempotent ==
    [][\A i \in 1..MaxSessions, q \in RateTables :
          (ret'.op = "end_usage_session" /\ EndUsageSession(i, q)
              /\ i \in DOMAIN usage_sessions
              /\ usage_sessions[i].status # "active")
          => /\ ret'.val = <<0, 0>>
             /\ UNCHANGED db
             /\ Cardinality(session_charges(transactions', i)) <= 1]_vars

\* a second end_usage_session call came back after the first one charged
C2_Witness ==
    /\ ret.op = "end_usage_session"
    /\ ret.val = <<0, 0>>
    /\ \E i \in DOMAIN usage_sessions :
          /\ usage_sessions[i].status = "completed"
          /\ Val(usage_sessions[i].quota_consumed) > 0
          /\ Cardinality(session_charges(transactions, i)) = 1

\* the balance of the row stored under exactly this username, 0 with no row
stored_balance(users, username) ==
    LET i == find_user(users, username)
    IN  IF i # 0 THEN users[i].balance ELSE 0

\* C6: every step that changes an account's stored balance (0 for an account
\* with no row) appends to the log exactly one Transaction of that account,
\* with balance_before the balance before the step and balance_after the
\* balance after it.
C6_AuditComplete ==
    [][\A u \in RawNames :
          stored_balance(user_quota', u) # stored_balance(user_quota, u)
          => LET new == of_account(appended(transactions, transactions'), u)
             IN  /\ SubSeq(transactions', 1, Len(transactions)) = transactions
                 /\ Len(new) = 1
                 /\ new[1].balance_before = stored_balance(user_quota, u)
                 /\ new[1].balance_after = stored_balance(user_quota', u)]_vars

\* a closed session has charged an account and a refresh has changed one
C6_Witness ==
    /\ \E k \in DOMAIN transactions :
          /\ transactions[k].transaction_type = "usage"
          /\ transactions[k].description[1] = "Session"
          /\ transactions[k].balance_before # transactions[k].balance_after
    /\ \E k \in DOMAIN transactions : transactions[k].transaction_type = "auto_refresh"

\* C7: every Transaction satisfies balance_after - balance_before = amount.
C7_AmountIsDelta ==
    \A k \in DOMAIN transactions :
        transactions[k].balance_after - transactions[k].balance_before
            = transactions[k].amount

\* C8: every account's persisted balance is >= 0.
C8_BalanceNonNegative ==
    \A i \in DOMAIN user_quota : user_quota[i].balance >= 0

\* C9: end_usage_session on an active session whose account is unlimited
\* marks it completed with its end_time and duration_minutes, leaves every
\* balance unchanged and writes no Transaction.
C9_UnlimitedNotCharged ==
    [][\A i \in 1..MaxSessions, q \in RateTables :
          (ret'.op = "end_usage_session" /\ EndUsageSession(i, q)
              /\ closable(usage_sessions, i)
              /\ is_unlimited(user_quota, usage_sessions[i].username))
          => /\ usage_sessions'[i].status = "completed"
             /\ usage_sessions'[i].end_time = Some(now)
             /\ usage_sessions'[i].duration_minutes
                    = Some((now - usage_sessions[i].start_time) \div TicksPerMinute)
             /\ user_quota' = user_quota
             /\ transactions' = transactions]_vars

\* a session with a cost was closed for an unlimited account
C9_Witness ==
    /\ ret.op = "end_usage_session"
    /\ ret.val[2] > 0
    /\ \E i \in DOMAIN usage_sessions :
          /\ usage_sessions[i].status = "completed"
          /\ usage_sessions[i].quota_consumed = Some(ret.val[2])
          /\ is_unlimited(user_quota, usage_sessions[i].username)
          /\ session_charges(transactions, i) = {}

----------------------------------------------------------------------------
(* SpecUsage: accounts created by their default grant, then only the usage  *)
(* path (deduct_quota, sessions opened and closed)                          *)

NextUsage ==
    \/ \E n \in Names, d \in DefaultQuotas : EnsureUserQuota(n, d)
    \/ \E u \in BOOLEAN : SetUnlimited(AliceUpper, u, Root)
    \/ \E n \in Names, m \in DeductAmounts, r \in {"", "gpu"} : DeductQuota(n, m, r)
    \/ \E r \in ResourceTypes : StartSession(AliceUpper, r)
    \/ \E i \in 1..MaxSessions, q \in RateTables : EndUsageSession(i, q)
    \/ (now < MaxMeterTime /\ Tick)

SpecUsage == Init /\ [][NextUsage]_vars

\* C5: under any sequence of usage deductions the stored balance is never
\* below 0, and each deduction (deduct_quota on an existing account that is
\* not unlimited, the close of a session of such an account) leaves
\* max(0, balance - amount), also when the amount exceeds the balance.
C5_UsageClamped ==
    /\ [](\A i \in DOMAIN user_quota : user_quota[i].balance >= 0)
    /\ [][\A n \in Names, m \in DeductAmounts, r \in {"", "gpu"} :
             (ret'.op = "deduct_quota" /\ DeductQuota(n, m, r)
                 /\ find_user(user_quota, lower(n)) # 0
                 /\ ~is_unlimited(user_quota, n))
             => get_balance(user_quota', n) = Max(0, get_balance(user_quota, n) - m)]_vars
    /\ [][\A i \in 1..MaxSessions, q \in RateTables :
             (ret'.op = "end_usage_session" /\ EndUsageSession(i, q)
                 /\ closable(usage_sessions, i)
                 /\ find_user(user_quota, usage_sessions[i].username) # 0
                 /\ ~is_unlimited(user_quota, usage_sessions[i].username))
             => get_balance(user_quota', usage_sessions[i].username)
                    = Max(0, get_balance(user_quota, usage_sessions[i].username)
                               - ret'.val[2])]_vars

\* a deduction larger than the balance was made and clamped at 0, by
\* deduct_quota and by the close of a session
C5_Witness ==
    /\ \E k \in DOMAIN transactions :
          /\ transactions[k].transaction_type = "usage"
          /\ transactions[k].description[1] = "Usage"
          /\ transactions[k].balance_before + transactions[k].amount < 0
          /\ transactions[k].balance_after = 0
    /\ \E k \in DOMAIN transactions :
          /\ transactions[k].transaction_type = "usage"
          /\ transactions[k].description[1] = "Session"
          /\ transactions[k].balance_before + transactions[k].amount < 0
          /\ transactions[k].balance_after = 0

----------------------------------------------------------------------------
(* SpecGate: the quota gate over accounts of every balance and flag *)

NextGate ==
    \/ \E n \in RawNames, d \in DefaultQuotas : EnsureUserQuota(n, d)
    \/ \E n \in RawNames, u \in BOOLEAN : SetUnlimited(n, u, Root)
    \/ \E n \in RawNames, m \in AddAmounts : AddQuota(n, m, Root)
    \/ \E n \in RawNames : GetBalance(n)
    \/ \E n \in RawNames, r \in ResourceTypes, m \in Minutes, q \in RateTables,
          d \in DefaultQuotas : CanStartContainer(n, r, m, q, d)

SpecGate == Init /\ [][NextGate]_vars

\* C10: for an account with unlimited = true, can_start_container returns
\* allowed = true and estimated cost 0 for every resource type, requested
\* minutes, rate table and stored balance.
C10_UnlimitedAlwaysAllowed ==
    \A n \in RawNames, r \in ResourceTypes, m \in Minutes, q \in RateTables,
       d \in DefaultQuotas :
        is_unlimited(user_quota, n)
        => LET result == can_start_container_uow(user_quota, n, r, m, q, d).result
           IN  result[1] = TRUE /\ result[3] = 0

\* the gate has answered for an unlimited account whose balance is not positive
C10_Witness ==
    /\ ret.op = "can_start_container"
    /\ ret.val = <<TRUE, <<"Unlimited quota">>, 0>>
    /\ \A i \in DOMAIN user_quota : user_quota[i].unlimited => user_quota[i].balance <= 0

----------------------------------------------------------------------------
(* SpecRace: two calls at once.  A call reads through its own ORM session,  *)
(* accumulates its writes and commits them; the calls that take            *)
(* QuotaManager._op_lock hold it from before their first read until after  *)
(* their commit.  Both calls address the account and the session that      *)
(* exist when the race starts.                                             *)

Invocation(op, args) == [op |-> op, args |-> args]

\* the operations whose body is inside "with self._op_lock"
LockedOps ==
    {"add_quota", "set_balance", "deduct_quota", "cleanup_stale_sessions",
     "batch_refresh_quota"}

\* the operations that write a balance
BalanceOps ==
    {"add_quota", "set_balance", "deduct_quota", "end_usage_session",
     "batch_refresh_quota"}

\* the unit of work of a call, from the tables as its session read them
call_uow(c, users, sessions, t) ==
    CASE c.op = "end_usage_session" ->
             end_usage_session_uow(users, sessions, t, c.args[1], c.args[2])
      [] c.op = "cleanup_stale_sessions" ->
             cleanup_stale_sessions_uow(sessions, t, c.args[1])
      [] c.op = "add_quota" -> add_quota_uow(users, c.args[1], c.args[2], "", Root)
      [] c.op = "set_balance" -> set_balance_uow(users, c.args[1], c.args[2], Root)
      [] c.op = "deduct_quota" -> deduct_quota_uow(users, c.args[1], c.args[2], "gpu")
      [] c.op = "batch_refresh_quota" ->
             batch_refresh_quota_uow(users, c.args[1].amount, c.args[1].action,
                 c.args[1].max_balance, c.args[1].min_balance, c.args[1].targets,
                 "manual")

\* end_usage_session queries the account only when the session has a cost;
\* the query autoflushes the pending UPDATE of the session row
flushes(c, sessions, t) ==
    /\ c.op = "end_usage_session"
    /\ closable(sessions, c.args[1])
    /\ call_uow(c, <<>>, sessions, t).result[2] > 0

\* the session rows a unit of work updates
session_rows(w) == {x.id : x \in {y \in w.writes : y.table = "session"}}

locked_by_other(t, rows) == \E l \in row_lock : l[1] \in rows /\ l[2] # t

\* the call enters (taking the operation lock if it is one that does) and runs
\* its first query
RaceBegin(t, c) ==
    /\ pc[t] = "idle"
    /\ c.op \in LockedOps => op_lock = 0
    /\ op_lock' = IF c.op \in LockedOps THEN t ELSE op_lock
    /\ loc' = [loc EXCEPT ![t] = [call |-> c, users |-> user_quota,
                                  sessions |-> usage_sessions, result |-> None]]
    /\ pc' = [pc EXCEPT ![t] = "read"]
    /\ UNCHANGED <<db, now, ret, row_lock, spawner>>

\* end_usage_session: the UPDATE of the session row is flushed (it waits for
\* another transaction's uncommitted UPDATE of the row), then the account is read
RaceFlush(t) ==
    /\ pc[t] = "read"
    /\ flushes(loc[t].call, loc[t].sessions, now)
    /\ ~locked_by_other(t, {loc[t].call.args[1]})
    /\ row_lock' = row_lock \cup {<<loc[t].call.args[1], t>>}
    /\ loc' = [loc EXCEPT ![t].users = user_quota]
    /\ pc' = [pc EXCEPT ![t] = "flushed"]
    /\ UNCHANGED <<db, now, ret, op_lock, spawner>>

\* the rest of the body and the commit at the exit of session_scope; the
\* operation lock is released after it
RaceCommit(t) ==
    /\ \/ pc[t] = "flushed"
       \/ pc[t] = "read" /\ ~flushes(loc[t].call, loc[t].sessions, now)
    /\ LET w == call_uow(loc[t].call, loc[t].users, loc[t].sessions, now)
       IN  /\ ~locked_by_other(t, session_rows(w))
           /\ commit(w)
           /\ ret' = Returned(loc[t].call.op, w.result)
           /\ loc' = [loc EXCEPT ![t].result = w.result]
    /\ row_lock' = {l \in row_lock : l[2] # t}
    /\ op_lock' = IF op_lock = t THEN 0 ELSE op_lock
    /\ pc' = [pc EXCEPT ![t] = "done"]
    /\ UNCHANGED <<now, spawner>>

\* the tables when the race starts: ensure_user_quota has created the account
\* with its grant and start_session has opened a session at time 0
RaceStart(grant) ==
    committed(committed(Tables(<<>>, <<>>, <<>>),
                        ensure_user_quota_uow(<<>>, AliceUpper, grant)),
              start_session_uow(<<>>, AliceUpper, "gpu", 0))

RaceGrants == {2, 4}
RaceTimes == {2 * TicksPerMinute, 2 * TicksPerMinute + 1}
RaceRates == { ("cpu" :> 1) @@ ("gpu" :> 2), ("cpu" :> 2) }
RaceRefreshes ==
    { Refresh(2, "add", None, None, NoTargets),
      Refresh(3, "set", None, None, NoTargets) }

InitRace ==
    /\ \E g \in RaceGrants :
          /\ user_quota = RaceStart(g).users
          /\ usage_sessions = RaceStart(g).sessions
          /\ transactions = RaceStart(g).txns
    /\ now \in RaceTimes
    /\ ret = Returned("init", None)
    /\ op_lock = 0
    /\ row_lock = {}
    /\ pc = [t \in Threads |-> "idle"]
    /\ loc = [t \in Threads |-> None]
    /\ spawner = NoSpawner

NextRace ==
    \/ \E t \in Threads, q \in RaceRates :
          RaceBegin(t, Invocation("end_usage_session", <<1, q>>))
    \/ \E t \in Threads, m \in StaleLimits :
          RaceBegin(t, Invocation("cleanup_stale_sessions", <<m>>))
    \/ \E t \in Threads, m \in AddAmounts :
          RaceBegin(t, Invocation("add_quota", <<AliceUpper, m>>))
    \/ \E t \in Threads, m \in SetAmounts :
          RaceBegin(t, Invocation("set_balance", <<AliceUpper, m>>))
    \/ \E t \in Threads, m \in UsageAmounts :
          RaceBegin(t, Invocation("deduct_quota", <<AliceUpper, m>>))
    \/ \E t \in Threads, c \in RaceRefreshes :
          RaceBegin(t, Invocation("batch_refresh_quota", <<c>>))
    \/ \E t \in Threads : RaceFlush(t)
    \/ \E t \in Threads : RaceCommit(t)

SpecRace == InitRace /\ [][NextRace]_vars

\* both calls have returned
AllDone == \A t \in Threads : pc[t] = "done"

\* the tables after a call that runs alone
run(d, c, t) == committed(d, call_uow(c, d.users, d.sessions, t))

\* the tables the race started from (the grant is the first row of the log)
Started == RaceStart(transactions[1].amount)

\* each Transaction of an account starts from the balance the previous one
\* left, and the last one leaves the stored balance
log_chained(users, txns) ==
    \A u \in Accounts :
        LET mine == of_account(txns, u)
        IN  /\ \A k \in 1..(Len(mine) - 1) :
                   mine[k + 1].balance_before = mine[k].balance_after
            /\ mine # <<>> => mine[Len(mine)].balance_after = get_balance(users, u)

\* C1: when end_usage_session and cleanup_stale_sessions race on a session
\* that is active and stale, exactly one of them transitions it and the other
\* changes nothing; the session is never both charged and cleaned_up.
C1_CloseReclaimRace ==
    \A t \in Threads, o \in Threads :
        (AllDone /\ loc[t].call.op = "end_usage_session"
            /\ loc[o].call.op = "cleanup_stale_sessions"
            /\ stale_cleaned(Started.sessions, now, loc[o].call.args[1]) # {})
        => /\ (loc[t].result # <<0, 0>>) # (loc[o].result # <<>>)
           /\ ~(usage_sessions[1].status = "cleaned_up"
                  /\ session_charges(transactions, 1) # {})

\* C3: when two end_usage_session calls race on the same active session,
\* exactly one of them completes and charges it and the other returns (0, 0);
\* the session has exactly one usage Transaction.
C3_DoubleStopRace ==
    (AllDone /\ loc[1].call.op = "end_usage_session"
        /\ loc[2].call.op = "end_usage_session")
    => /\ (loc[1].result = <<0, 0>>) # (loc[2].result = <<0, 0>>)
       /\ Cardinality(session_charges(transactions, 1)) = 1

\* C4: two balance-mutating calls on the same account leave the balance of one
\* of their two serial orders, and every Transaction's balance_before is the
\* balance the previous mutation left.
C4_Serializable ==
    (AllDone /\ loc[1].call.op \in BalanceOps /\ loc[2].call.op \in BalanceOps)
    => /\ get_balance(user_quota, Alice)
              \in { get_balance(run(run(Started, loc[1].call, now),
                                    loc[2].call, now).users, Alice),
                    get_balance(run(run(Started, loc[2].call, now),
                                    loc[1].call, now).users, Alice) }
       /\ log_chained(user_quota, transactions)

----------------------------------------------------------------------------
(* SpecSessions: the life of sessions.  The tables start empty, or as two   *)
(* spawns leave them: Alice has asked for a "gpu" container at time 0 and   *)
(* Bob for a "cpu" container later, both for one minute.                    *)

\* RemoteLabKubeSpawner.start() with quota enabled, up to "await
\* super().start()": nothing for an unlimited user; else the gate, which
\* makes a missing account with the default grant, and the usage session
\* when the gate allows the start
spawned(d, name, accelerator_type, runtime_minutes, quota_rates, default_quota, t) ==
    LET gate == can_start_container_uow(d.users, name, accelerator_type,
                    runtime_minutes, quota_rates, default_quota)
        gated == committed(d, gate)
    IN  IF is_unlimited(d.users, name) THEN d
        ELSE IF ~gate.result[1] THEN gated
        ELSE committed(gated,
                 start_session_uow(gated.sessions, name, accelerator_type, t))

SessionsRates == ("cpu" :> 1) @@ ("gpu" :> 2)

SessionsStart(grant, t) ==
    spawned(spawned(Tables(<<>>, <<>>, <<>>), AliceUpper, "gpu", 1, SessionsRates, grant, 0),
            Bob, "cpu", 1, SessionsRates, grant, t)

SecondStarts == {1, 2}

InitSessions ==
    /\ \/ /\ user_quota = <<>>
          /\ usage_sessions = <<>>
          /\ transactions = <<>>
          /\ now = 0
       \/ \E g \in DefaultQuotas, t \in SecondStarts :
             /\ user_quota = SessionsStart(g, t).users
             /\ usage_sessions = SessionsStart(g, t).sessions
             /\ transactions = SessionsStart(g, t).txns
             /\ now = t
    /\ ret = Returned("init", None)
    /\ op_lock = 0
    /\ row_lock = {}
    /\ pc = [t \in Threads |-> "idle"]
    /\ loc = [t \in Threads |-> None]
    /\ spawner = NoSpawner

NextSessions ==
    \/ \E n \in Names, d \in DefaultQuotas : EnsureUserQuota(n, d)
    \/ \E n \in Names, r \in ResourceTypes : StartSession(n, r)
    \/ \E i \in DOMAIN usage_sessions, q \in SessionCosts : EndSession(i, q)
    \/ \E i \in DOMAIN usage_sessions, q \in RateTables : EndUsageSession(i, q)
    \/ \E m \in StaleLimits : CleanupStaleSessions(m)
    \/ Tick

SpecSessions == InitSessions /\ [][NextSessions]_vars

\* C11: a session is created active with end_time, duration_minutes and
\* quota_consumed null; while it stays active its row is not touched; it leaves
\* active only for completed or cleaned_up; once it is not active its row
\* never changes again.
C11_SessionLifecycle ==
    [][/\ \A i \in DOMAIN usage_sessions :
             /\ i \in DOMAIN usage_sessions'
             /\ usage_sessions[i].status # "active"
                    => usage_sessions'[i] = usage_sessions[i]
             /\ usage_sessions[i].status = "active"
                    => \/ usage_sessions'[i] = usage_sessions[i]
                       \/ usage_sessions'[i].status \in {"completed", "cleaned_up"}
       /\ \A i \in DOMAIN usage_sessions' \ DOMAIN usage_sessions :
             /\ usage_sessions'[i].status = "active"
             /\ IsNone(usage_sessions'[i].end_time)
             /\ IsNone(usage_sessions'[i].duration_minutes)
             /\ IsNone(usage_sessions'[i].quota_consumed)]_vars

\* end_session came back empty-handed when one session was completed, the
\* other reclaimed and none was active
C11_Witness ==
    /\ ret.op = "end_session"
    /\ ret.val = None
    /\ \E i \in DOMAIN usage_sessions : usage_sessions[i].status = "completed"
    /\ \E i \in DOMAIN usage_sessions : usage_sessions[i].status = "cleaned_up"

\* C12: cleanup_stale_sessions changes no account and appends no Transaction,
\* and the sessions it closes keep quota_consumed null.
C12_ReclaimChargesNothing ==
    [][\A m \in StaleLimits :
          CleanupStaleSessions(m)
          => /\ user_quota' = user_quota
             /\ transactions' = transactions
             /\ \A i \in DOMAIN usage_sessions :
                    (usage_sessions[i].status = "active"
                        /\ usage_sessions'[i].status = "cleaned_up")
                    => IsNone(usage_sessions'[i].quota_consumed)]_vars

\* a session that ran for at least a minute was reclaimed from an account
\* that had a balance to charge
C12_Witness ==
    /\ ret.op = "cleanup_stale_sessions"
    /\ ret.val # <<>>
    /\ ret.val[1].duration_minutes > 0
    /\ usage_sessions[ret.val[1].session_id].status = "cleaned_up"
    /\ get_balance(user_quota, ret.val[1].username) > 0
    /\ ~is_unlimited(user_quota, ret.val[1].username)

\* C13: after cleanup_stale_sessions(m) at time now, every session that was
\* active with start_time earlier than now - m minutes is cleaned_up and in
\* the returned list, and every active session started later is untouched.
C13_ReclaimsEveryStale ==
    [][\A m \in StaleLimits :
          CleanupStaleSessions(m)
          => \A i \in DOMAIN usage_sessions :
                 usage_sessions[i].status = "active"
                 => /\ usage_sessions[i].start_time < now - m * TicksPerMinute
                        => /\ usage_sessions'[i].status = "cleaned_up"
                           /\ \E k \in DOMAIN ret'.val : ret'.val[k].session_id = i
                    /\ usage_sessions[i].start_time > now - m * TicksPerMinute
                        => usage_sessions'[i] = usage_sessions[i]]_vars

\* C17: end_usage_session on an active session returns
\* duration = max(1, whole minutes elapsed) and quota = duration * rate, and
\* stores both on the session.
C17_MinimumOneMinute ==
    [][\A i \in DOMAIN usage_sessions, q \in RateTables :
          (EndUsageSession(i, q) /\ closable(usage_sessions, i))
          => LET d == Max(1, (now - usage_sessions[i].start_time) \div TicksPerMinute)
                 c == d * session_rate(q, usage_sessions[i].resource_type)
             IN  /\ ret'.val = <<d, c>>
                 /\ usage_sessions'[i].duration_minutes = Some(d)
                 /\ usage_sessions'[i].quota_consumed = Some(c)]_vars

\* C18: the spawner's get_quota_rate and the gate resolve every rate alike,
\* and the cost end_usage_session charges for its minutes is the cost the gate
\* estimates for as many minutes of the session's resource type.
C18_SameRateEverywhere ==
    /\ [](\A q \in RateTables, r \in ResourceTypes :
             get_quota_rate(q, r) = gate_rate(q, r))
    /\ [][\A i \in DOMAIN usage_sessions, q \in RateTables :
             (EndUsageSession(i, q) /\ closable(usage_sessions, i))
             => ret'.val[2]
                    = ret'.val[1] * gate_rate(q, usage_sessions[i].resource_type)]_vars

----------------------------------------------------------------------------
(* SpecRefresh: one batch refresh over three accounts.  An administrator    *)
(* has set the balances of Alice, Bob and Carol and Carol's unlimited flag. *)

Carol == <<"c", "a">>

RefreshStart(a, b, c, unlimited) ==
    LET t1 == committed(Tables(<<>>, <<>>, <<>>), set_balance_uow(<<>>, AliceUpper, a, Root))
        t2 == committed(t1, set_balance_uow(t1.users, Bob, b, Root))
        t3 == committed(t2, set_balance_uow(t2.users, Carol, c, Root))
    IN  committed(t3, set_unlimited_uow(t3.users, Carol, unlimited, Root))

AliceBalances == {50, 9}
BobBalances == {5, 10}
CarolBalances == {0, 12}

\* amount, action, max_balance, min_balance
RefreshAmounts ==
    { <<10, "add", None, None>>, <<10, "add", Some(50), None>>,
      <<10, "add", Some(20), None>>,
      <<-10, "add", None, None>>, <<-10, "add", None, Some(3)>>,
      <<0, "add", None, None>>, <<5, "set", None, None>>, <<5, "reset", None, None>> }

RefreshTargets ==
    { NoTargets,
      Targets(FALSE, Some(10), None, <<>>, <<>>, None),
      Targets(TRUE, None, None, <<>>, <<>>, None),
      Targets(TRUE, Some(12), Some(5), <<>>, <<>>, None),
      Targets(FALSE, None, Some(9), <<>>, <<>>, None),
      Targets(FALSE, None, None, <<AliceUpper, Carol>>, <<>>, None),
      Targets(TRUE, None, None, <<AliceUpper, Carol>>, <<Carol>>, None),
      Targets(FALSE, None, None, <<>>, <<Bob>>, None),
      Targets(FALSE, None, None, <<>>, <<>>, Some(<<"A">>)),
      Targets(TRUE, None, None, <<>>, <<>>, Some(<<".", "A">>)),
      Targets(FALSE, Some(10), None, <<>>, <<>>, Some(<<"b", "o">>)),
      Targets(FALSE, None, None, <<>>, <<>>, Some(<<>>)),
      Targets(FALSE, None, None, <<>>, <<>>, Some(<<"[">>)) }

RefreshInputs ==
    {Refresh(x[1], x[2], x[3], x[4], g) : x \in RefreshAmounts, g \in RefreshTargets}

\* the one batch_refresh_quota call of the behaviour; loc keeps its arguments
RefreshOnce(c) ==
    /\ ret.op = "init"
    /\ \A t \in Threads : pc[t] = "idle"
    /\ LET w == batch_refresh_quota_uow(user_quota, c.amount, c.action, c.max_balance,
                                        c.min_balance, c.targets, "manual")
       IN  /\ commit(w)
           /\ ret' = Returned("batch_refresh_quota", w.result)
    /\ loc' = [loc EXCEPT ![1] = Invocation("batch_refresh_quota", <<c>>)]
    /\ UNCHANGED <<now, op_lock, row_lock, pc, spawner>>

InitRefresh ==
    /\ \E a \in AliceBalances, b \in BobBalances, c \in CarolBalances, u \in BOOLEAN :
          /\ user_quota = RefreshStart(a, b, c, u).users
          /\ usage_sessions = RefreshStart(a, b, c, u).sessions
          /\ transactions = RefreshStart(a, b, c, u).txns
    /\ now = 0
    /\ ret = Returned("init", None)
    /\ op_lock = 0
    /\ row_lock = {}
    /\ pc = [t \in Threads |-> "idle"]
    /\ loc = [t \in Threads |-> None]
    /\ spawner = NoSpawner

NextRefresh == \E c \in RefreshInputs : RefreshOnce(c)

SpecRefresh == InitRefresh /\ [][NextRefresh]_vars

\* the targeting clauses, all of them
targeted(row, targets) ==
    /\ row.unlimited => targets.includeUnlimited
    /\ ~IsNone(targets.balanceBelow) => row.balance < Val(targets.balanceBelow)
    /\ ~IsNone(targets.balanceAbove) => row.balance > Val(targets.balanceAbove)
    /\ targets.includeUsers # <<>> => row.username \in lowered(targets.includeUsers)
    /\ row.username \notin lowered(targets.excludeUsers)
    /\ (~IsNone(targets.usernamePattern) /\ Val(targets.usernamePattern) # <<>>)
           => /\ ~re_error(Val(targets.usernamePattern))
              /\ re_match(Val(targets.usernamePattern), row.username)

\* C14: batch_refresh_quota changes the balance of an account if and only if
\* the account satisfies every targeting clause and its computed balance
\* differs from the current one; every other account is left as it was and
\* counted as skipped.
C14_RefreshTargets ==
    [][\A c \in RefreshInputs :
          (RefreshOnce(c) /\ c.action \in {"add", "set"})
          => LET new(i) == refresh_balance(user_quota[i].balance, c.amount, c.action,
                                            c.max_balance, c.min_balance)
                 hit == {i \in DOMAIN user_quota :
                            /\ targeted(user_quota[i], c.targets)
                            /\ new(i) # user_quota[i].balance}
             IN  /\ DOMAIN user_quota' = DOMAIN user_quota
                 /\ \A i \in DOMAIN user_quota :
                        /\ (user_quota'[i].balance # user_quota[i].balance) <=> (i \in hit)
                        /\ i \in hit => user_quota'[i].balance = new(i)
                        /\ i \notin hit => user_quota'[i] = user_quota[i]
                 /\ ret'.val.users_updated = Cardinality(hit)
                 /\ ret'.val.skipped = Len(user_quota) - Cardinality(hit)]_vars

\* accounts {alice: 50, bob: 5, carol: unlimited} after a refresh that added
\* 10 to bob only: bob has 15, one account updated, two skipped
C14_Witness ==
    /\ ret.op = "batch_refresh_quota"
    /\ "users_updated" \in DOMAIN ret.val
    /\ ret.val.users_updated = 1
    /\ ret.val.skipped = 2
    /\ ret.val.total_change = 10
    /\ get_balance(user_quota, Alice) = 50
    /\ get_balance(user_quota, Bob) = 15
    /\ is_unlimited(user_quota, Carol)
    /\ transactions[Len(transactions)].username = Bob
    /\ transactions[Len(transactions)].balance_before = 5

----------------------------------------------------------------------------
(* SpecGateCosts: the quota gate asked about Alice, whose balance an        *)
(* administrator has set (and who may have been made unlimited), and about  *)
(* Bob, who has no account yet.                                             *)

GateStart(balance, unlimited) ==
    LET a == committed(Tables(<<>>, <<>>, <<>>),
                       set_balance_uow(<<>>, AliceUpper, balance, Root))
    IN  IF unlimited
        THEN committed(a, set_unlimited_uow(a.users, AliceUpper, TRUE, Root))
        ELSE a

GateBalances == {-1, 0, 1, 25, 30, 31}
GateMinutes == {0, 1, 2, 3}
GateRateTables ==
    { ("cpu" :> 1) @@ ("gpu" :> 10),
      ("cpu" :> 3),
      ("gpu" :> 0),
      <<>> }

InitGateCosts ==
    /\ \E b \in GateBalances, u \in BOOLEAN :
          /\ user_quota = GateStart(b, u).users
          /\ usage_sessions = GateStart(b, u).sessions
          /\ transactions = GateStart(b, u).txns
    /\ now = 0
    /\ ret = Returned("init", None)
    /\ op_lock = 0
    /\ row_lock = {}
    /\ pc = [t \in Threads |-> "idle"]
    /\ loc = [t \in Threads |-> None]
    /\ spawner = NoSpawner

NextGateCosts ==
    \E n \in Names, r \in ResourceTypes, m \in GateMinutes, q \in GateRateTables,
       d \in DefaultQuotas : CanStartContainer(n, r, m, q, d)

SpecGateCosts == InitGateCosts /\ [][NextGateCosts]_vars

\* C15: for an account that is not unlimited, can_start_container allows
\* if and only if balance > 0 and balance >= minutes * rate, and its
\* estimated cost is minutes * rate in every case.  (The balance is that of
\* the account after the call, which creates a missing account.)
C15_GateDecision ==
    [][\A n \in Names, r \in ResourceTypes, m \in GateMinutes, q \in GateRateTables,
          d \in DefaultQuotas :
          (CanStartContainer(n, r, m, q, d) /\ ~is_unlimited(user_quota', n))
          => LET balance == get_balance(user_quota', n)
                 cost == m * gate_rate(q, r)
             IN  /\ ret'.val[1] = (balance > 0 /\ balance >= cost)
                 /\ ret'.val[3] = cost]_vars

\* the gate has refused an account with balance 0 a start that costs nothing
C15_Witness ==
    /\ ret.op = "can_start_container"
    /\ ret.val = <<FALSE, <<"Insufficient quota", 0>>, 0>>

\* C16: when can_start_container denies because 0 < balance < cost, the
\* maximum it reports is m with m * rate <= balance < (m + 1) * rate (0 when
\* the rate is 0), and m minutes at that rate are not denied.
C16_MaxAffordable ==
    [][\A n \in Names, r \in ResourceTypes, m \in GateMinutes, q \in GateRateTables,
          d \in DefaultQuotas :
          (/\ CanStartContainer(n, r, m, q, d)
           /\ ~is_unlimited(user_quota', n)
           /\ 0 < get_balance(user_quota', n)
           /\ get_balance(user_quota', n) < m * gate_rate(q, r))
          => LET balance == get_balance(user_quota', n)
                 rate == gate_rate(q, r)
                 max == ret'.val[2][5]
             IN  /\ ret'.val[1] = FALSE
                 /\ ret'.val[2][1] = "Insufficient quota for"
                 /\ rate = 0 => max = 0
                 /\ rate > 0 => (max * rate <= balance /\ balance < (max + 1) * rate)
                 /\ can_start_result(balance, FALSE, r, max, q)[1] = TRUE]_vars

\* balance 25, rate 10, 3 minutes: estimated cost 30, maximum 2 minutes
C16_Witness ==
    /\ ret.op = "can_start_container"
    /\ ret.val = <<FALSE, <<"Insufficient quota for", 3, 25, 30, 2>>, 30>>

\* C19: can_start_container leaves every existing account, every session and
\* every logged Transaction as they were; it writes only when the account is
\* missing: the new account with the default grant, and the initial_grant
\* Transaction when the grant is positive.
C19_GateWritesOnlyNewAccount ==
    [][\A n \in Names, r \in ResourceTypes, m \in GateMinutes, q \in GateRateTables,
          d \in DefaultQuotas :
          CanStartContainer(n, r, m, q, d)
          => /\ usage_sessions' = usage_sessions
             /\ IF find_user(user_quota, lower(n)) # 0
                THEN user_quota' = user_quota /\ transactions' = transactions
                ELSE /\ user_quota' = Append(user_quota, UserQuota(lower(n), d, FALSE))
                     /\ SubSeq(transactions', 1, Len(transactions)) = transactions
                     /\ Len(transactions') = Len(transactions) + (IF d > 0 THEN 1 ELSE 0)
                     /\ d > 0 =>
                            LET x == transactions'[Len(transactions')]
                            IN  /\ x.username = lower(n)
                                /\ x.transaction_type = "initial_grant"
                                /\ x.amount = d
                                /\ x.balance_before = 0
                                /\ x.balance_after = d]_vars

\* the gate has allowed starts with a cost to Alice and to Bob, whose account
\* it created with the grant
C19_Witness ==
    /\ ret.op = "can_start_container"
    /\ ret.val[1] = TRUE
    /\ ret.val[3] > 0
    /\ find_user(user_quota, Bob) # 0
    /\ get_balance(user_quota, Alice) > 0
    /\ \E k \in DOMAIN transactions :
          transactions[k].transaction_type = "initial_grant"

----------------------------------------------------------------------------
(* Claims on deduct_quota, checked under SpecUsage *)

\* C20: deduct_quota on an existing account that is not unlimited never
\* refuses: for any amount it stores and returns max(0, balance - amount) and
\* appends exactly one usage Transaction of the account.
C20_DeductNeverRefuses ==
    [][\A n \in Names, m \in DeductAmounts, r \in {"", "gpu"} :
          (ret'.op = "deduct_quota" /\ DeductQuota(n, m, r)
              /\ find_user(user_quota, lower(n)) # 0
              /\ ~is_unlimited(user_quota, n))
          => LET new == appended(transactions, transactions')
             IN  /\ get_balance(user_quota', n) = Max(0, get_balance(user_quota, n) - m)
                 /\ ret'.val = Max(0, get_balance(user_quota, n) - m)
                 /\ SubSeq(transactions', 1, Len(transactions)) = transactions
                 /\ Len(new) = 1
                 /\ new[1].transaction_type = "usage"
                 /\ new[1].username = lower(n)]_vars

\* deduct_quota has taken more than the positive balance of an account
C20_Witness ==
    /\ ret.op = "deduct_quota"
    /\ ret.val = 0
    /\ transactions # <<>>
    /\ LET x == transactions[Len(transactions)]
       IN  /\ x.transaction_type = "usage"
           /\ x.description[1] \in {"Usage", "Usage deduction"}
           /\ x.balance_before > 0
           /\ -x.amount > x.balance_before
           /\ get_balance(user_quota, x.username) = 0

----------------------------------------------------------------------------
(* SpecAdmin: the account operations, called with every spelling of the     *)
(* usernames                                                                *)

NextAdmin ==
    \/ \E n \in RawNames, d \in DefaultQuotas : EnsureUserQuota(n, d)
    \/ \E n \in RawNames, u \in BOOLEAN : SetUnlimited(n, u, Root)
    \/ \E n \in RawNames, m \in AddAmounts : AddQuota(n, m, Root)
    \/ \E n \in RawNames, m \in SetAmounts : SetBalance(n, m, Root)
    \/ \E n \in RawNames, m \in UsageAmounts : DeductQuota(n, m, "gpu")
    \/ \E n \in RawNames : GetBalance(n)
    \/ \E n \in RawNames, r \in ResourceTypes : StartSession(n, r)

SpecAdmin == Init /\ [][NextAdmin]_vars

\* C21: after set_balance(n, m) the account exists and get_balance(n) returns
\* m; the call returns m and appends exactly one Transaction, of type set,
\* with balance_before the previous balance (0 for a missing account),
\* balance_after m and amount m - previous balance.
C21_SetBalanceRoundTrip ==
    [][\A n \in RawNames, m \in SetAmounts :
          SetBalance(n, m, Root)
          => LET previous == get_balance(user_quota, n)
                 new == appended(transactions, transactions')
             IN  /\ find_user(user_quota', lower(n)) # 0
                 /\ get_balance(user_quota', n) = m
                 /\ ret'.val = m
                 /\ SubSeq(transactions', 1, Len(transactions)) = transactions
                 /\ Len(new) = 1
                 /\ new[1].username = lower(n)
                 /\ new[1].transaction_type = "set"
                 /\ new[1].balance_before = previous
                 /\ new[1].balance_after = m
                 /\ new[1].amount = m - previous]_vars

\* set_balance has overwritten a balance that was not 0, and the account
\* reads back the value set
C21_Witness ==
    /\ ret.op = "set_balance"
    /\ transactions # <<>>
    /\ LET x == transactions[Len(transactions)]
       IN  /\ x.transaction_type = "set"
           /\ x.balance_before # 0
           /\ x.amount # x.balance_after
           /\ x.balance_after = ret.val
           /\ get_balance(user_quota, x.username) = ret.val

\* C22: set_unlimited(n, u) leaves the flag u and the balance as it was, and
\* on every call, also when the flag already was u, appends exactly one
\* Transaction, of type set_unlimited (u true) or unset_unlimited (u false),
\* with amount 0 and balance_before = balance_after = the balance; a repeated
\* call leaves every account as the first call left it.
C22_SetUnlimitedAlwaysLogged ==
    [][\A n \in RawNames, u \in BOOLEAN :
          SetUnlimited(n, u, Root)
          => LET balance == get_balance(user_quota, n)
                 new == appended(transactions, transactions')
                 again == set_unlimited_uow(user_quota', n, u, Root)
             IN  /\ is_unlimited(user_quota', n) = u
                 /\ get_balance(user_quota', n) = balance
                 /\ \A i \in DOMAIN user_quota :
                        user_quota'[i].balance = user_quota[i].balance
                 /\ SubSeq(transactions', 1, Len(transactions)) = transactions
                 /\ Len(new) = 1
                 /\ new[1].username = lower(n)
                 /\ new[1].transaction_type
                        = (IF u THEN "set_unlimited" ELSE "unset_unlimited")
                 /\ new[1].amount = 0
                 /\ new[1].balance_before = balance
                 /\ new[1].balance_after = balance
                 /\ committed(Tables(user_quota', usage_sessions', transactions'),
                              again).users = user_quota'
                 /\ again.ins_txns = new]_vars

\* set_unlimited(n, FALSE) was called on an account that ensure_user_quota had
\* just created with a grant, whose flag was FALSE already: the call is logged
\* with the balance of the account
C22_Witness ==
    /\ ret.op = "set_unlimited"
    /\ Len(transactions) = 2
    /\ transactions[1].transaction_type = "initial_grant"
    /\ transactions[2].transaction_type = "unset_unlimited"
    /\ transactions[2].username = transactions[1].username
    /\ transactions[2].balance_before = transactions[1].balance_after
    /\ transactions[2].balance_after > 0
    /\ ~is_unlimited(user_quota, transactions[2].username)
    /\ get_balance(user_quota, transactions[2].username) = transactions[2].balance_after

\* C28: ensure_user_quota(n, d) on a missing account creates it with balance
\* d, not unlimited, and appends one initial_grant Transaction (0 -> d) if and
\* only if d > 0; on an existing account it returns the stored balance and
\* writes nothing.  So a call that follows it, with the same or another
\* grant, writes nothing and returns the same balance.
C28_EnsureGrantsOnce ==
    [][\A n \in RawNames, d \in DefaultQuotas :
          EnsureUserQuota(n, d)
          => /\ usage_sessions' = usage_sessions
             /\ IF find_user(user_quota, lower(n)) # 0
                THEN /\ user_quota' = user_quota
                     /\ transactions' = transactions
                     /\ ret'.val = get_balance(user_quota, n)
                ELSE /\ user_quota' = Append(user_quota, UserQuota(lower(n), d, FALSE))
                     /\ ret'.val = d
                     /\ transactions'
                            = IF d > 0
                              THEN Append(transactions,
                                       QuotaTransaction(lower(n), d, "initial_grant", None,
                                           0, d, <<"Default quota for new user">>, None))
                              ELSE transactions
             /\ \A e \in DefaultQuotas :
                    ensure_user_quota_uow(user_quota', n, e) = NoWork(ret'.val)]_vars

\* ensure_user_quota has returned the balance of an account created without
\* a grant, when it is asked again after a positive grant was logged for the
\* other account: the account still has 0 and no Transaction
C28_Witness ==
    /\ ret.op = "ensure_user_quota"
    /\ ret.val = 0
    /\ Len(user_quota) = 2
    /\ user_quota[1].balance = 0
    /\ user_quota[2].balance > 0
    /\ Len(transactions) = 1
    /\ transactions[1].transaction_type = "initial_grant"
    /\ transactions[1].username = user_quota[2].username

\* C29: every stored username is in lower case and no two accounts have
\* names that differ only by case; and every operation keyed by a username
\* reads, writes and returns the same for two spellings that differ only by
\* case, as does a refresh that names the account in includeUsers or
\* excludeUsers.
C29_CaseInsensitiveKey ==
    LET fold(s) == [k \in DOMAIN s |-> LowerChar(s[k])]
        only(n) == Targets(TRUE, None, None, <<n>>, <<>>, None)
        but(n) == Targets(TRUE, None, None, <<>>, <<n>>, None)
    IN  /\ \A i \in DOMAIN user_quota :
               user_quota[i].username = fold(user_quota[i].username)
        /\ \A i, j \in DOMAIN user_quota :
               fold(user_quota[i].username) = fold(user_quota[j].username) => i = j
        /\ \A i \in DOMAIN usage_sessions :
               usage_sessions[i].username = fold(usage_sessions[i].username)
        /\ \A n, m \in RawNames :
               fold(n) = fold(m)
               => /\ get_balance(user_quota, n) = get_balance(user_quota, m)
                  /\ is_unlimited(user_quota, n) = is_unlimited(user_quota, m)
                  /\ \A d \in DefaultQuotas :
                         ensure_user_quota_uow(user_quota, n, d)
                             = ensure_user_quota_uow(user_quota, m, d)
                  /\ \A x \in AddAmounts :
                         add_quota_uow(user_quota, n, x, "", Root)
                             = add_quota_uow(user_quota, m, x, "", Root)
                  /\ \A x \in SetAmounts :
                         set_balance_uow(user_quota, n, x, Root)
                             = set_balance_uow(user_quota, m, x, Root)
                  /\ \A x \in UsageAmounts :
                         deduct_quota_uow(user_quota, n, x, "gpu")
                             = deduct_quota_uow(user_quota, m, x, "gpu")
                  /\ \A u \in BOOLEAN :
                         set_unlimited_uow(user_quota, n, u, Root)
                             = set_unlimited_uow(user_quota, m, u, Root)
                  /\ \A r \in ResourceTypes :
                         start_session_uow(usage_sessions, n, r, now)
                             = start_session_uow(usage_sessions, m, r, now)
                  /\ batch_refresh_quota_uow(user_quota, 2, "add", None, None, only(n), "manual")
                         = batch_refresh_quota_uow(user_quota, 2, "add", None, None, only(m), "manual")
                  /\ batch_refresh_quota_uow(user_quota, 2, "add", None, None, but(n), "manual")
                         = batch_refresh_quota_uow(user_quota, 2, "add", None, None, but(m), "manual")

\* both accounts exist, Alice's with a balance, the unlimited flag and a
\* session, and the calls that spell her name with a capital find all three
C29_Witness ==
    /\ Len(user_quota) = 2
    /\ get_balance(user_quota, AliceUpper) > 0
    /\ is_unlimited(user_quota, AliceUpper)
    /\ add_quota_uow(user_quota, AliceUpper, 2, "", Root).ins_users = <<>>
    /\ \E i \in DOMAIN usage_sessions : usage_sessions[i].username = Alice
    /\ batch_refresh_quota_uow(user_quota, 2, "add", None, None,
           Targets(TRUE, None, None, <<AliceUpper>>, <<>>, None), "manual").result.users_updated = 1

----------------------------------------------------------------------------
(* Claims on the log, checked under Spec *)

\* C30: the log only grows: across every step the log before the step is a
\* prefix of the log after it, so no Transaction is modified or deleted once
\* it is written.
C30_LogAppendOnly ==
    [][/\ Len(transactions') >= Len(transactions)
       /\ \A k \in DOMAIN transactions : transactions'[k] = transactions[k]]_vars

\* a closed session has charged an account after a refresh had changed it,
\* and both Transactions are in the log in that order
C30_Witness ==
    /\ Len(transactions) >= 2
    /\ transactions[1].transaction_type = "auto_refresh"
    /\ transactions[2].transaction_type = "usage"
    /\ transactions[2].username = transactions[1].username
    /\ transactions[2].description[1] = "Session"
    /\ transactions[2].balance_before = transactions[1].balance_after

----------------------------------------------------------------------------
(* Claims on the balance a refresh computes and on what it logs, checked    *)
(* under SpecRefresh                                                        *)

\* the arguments of the batch_refresh_quota call that has returned
refreshed == loc[1].args[1]

\* C24: for every account that matches the targets, batch_refresh_quota
\* leaves: action set -> amount; action add with amount > 0 ->
\* min(current + amount, max_balance) when max_balance is given, else
\* current + amount; action add with amount < 0 ->
\* max(current + amount, min_balance), min_balance being 0 when not given;
\* action add with amount 0 -> current.
C24_RefreshBalance ==
    [][\A c \in RefreshInputs :
          (RefreshOnce(c) /\ c.action \in {"add", "set"})
          => \A i \in DOMAIN user_quota :
                 match_targets(user_quota[i].username, user_quota[i].balance,
                               user_quota[i].unlimited, c.targets)
                 => LET current == user_quota[i].balance
                        floor == IF IsNone(c.min_balance) THEN 0 ELSE Val(c.min_balance)
                    IN  user_quota'[i].balance
                            = CASE c.action = "set" -> c.amount
                                [] c.action = "add" /\ c.amount > 0 ->
                                       IF IsNone(c.max_balance) THEN current + c.amount
                                       ELSE Min(current + c.amount, Val(c.max_balance))
                                [] c.action = "add" /\ c.amount < 0 ->
                                       Max(current + c.amount, floor)
                                [] OTHER -> current]_vars

\* a refresh that takes 10 with min_balance 3 has left Alice, who had 9,
\* with 3
C24_Witness ==
    /\ ret.op = "batch_refresh_quota"
    /\ refreshed.action = "add"
    /\ refreshed.amount = -10
    /\ refreshed.min_balance = Some(3)
    /\ get_balance(user_quota, Alice) = 3
    /\ \E k \in DOMAIN transactions :
           /\ transactions[k].transaction_type = "auto_refresh"
           /\ transactions[k].username = Alice
           /\ transactions[k].balance_before = 9
           /\ transactions[k].amount = -6

\* C25: an account that matches the targets and whose computed balance
\* equals its current balance is counted as skipped, keeps its row and gets no
\* Transaction; the log gets one auto_refresh Transaction for each account
\* whose balance changes, and only for those, with amount = new - current,
\* balance_before = current, balance_after = new and a description carrying
\* the action and the rule name.
C25_RefreshSkipsUnchanged ==
    [][\A c \in RefreshInputs :
          (RefreshOnce(c) /\ c.action \in {"add", "set"})
          => LET new == appended(transactions, transactions')
                 matching == {i \in DOMAIN user_quota :
                                 match_targets(user_quota[i].username, user_quota[i].balance,
                                               user_quota[i].unlimited, c.targets)}
                 same == {i \in matching :
                             refresh_balance(user_quota[i].balance, c.amount, c.action,
                                             c.max_balance, c.min_balance)
                                 = user_quota[i].balance}
                 changed == {i \in DOMAIN user_quota :
                                user_quota'[i].balance # user_quota[i].balance}
             IN  /\ \A i \in same :
                        /\ user_quota'[i] = user_quota[i]
                        /\ \A k \in DOMAIN new : new[k].username # user_quota[i].username
                 /\ ret'.val.skipped
                        = Cardinality(DOMAIN user_quota \ matching) + Cardinality(same)
                 /\ Len(new) = Cardinality(changed)
                 /\ \A k \in DOMAIN new :
                        \E i \in changed :
                            /\ new[k].username = user_quota[i].username
                            /\ new[k].transaction_type = "auto_refresh"
                            /\ new[k].balance_before = user_quota[i].balance
                            /\ new[k].balance_after = user_quota'[i].balance
                            /\ new[k].amount
                                   = user_quota'[i].balance - user_quota[i].balance
                            /\ new[k].description = <<"Auto", c.action, "manual">>
                 /\ \A i \in changed :
                        Len(of_account(new, user_quota[i].username)) = 1]_vars

\* a refresh for every account that adds 10 up to max_balance 50 has skipped
\* Alice, who had 50, and has updated and logged Bob and Carol
C25_Witness ==
    /\ ret.op = "batch_refresh_quota"
    /\ refreshed.action = "add"
    /\ refreshed.amount = 10
    /\ refreshed.max_balance = Some(50)
    /\ refreshed.targets = NoTargets
    /\ ret.val.users_updated = 2
    /\ ret.val.skipped = 1
    /\ get_balance(user_quota, Alice) = 50
    /\ get_balance(user_quota, Bob) = 15
    /\ \A k \in DOMAIN transactions :
           transactions[k].transaction_type = "auto_refresh"
           => transactions[k].username # Alice

\* C26: batch_refresh_quota with an action other than 'add' and 'set' returns
\* an error result, changes no account and appends no Transaction.
C26_InvalidActionRejected ==
    [][\A c \in RefreshInputs :
          (RefreshOnce(c) /\ c.action \notin {"add", "set"})
          => /\ DOMAIN ret'.val = {"error", "rule_name"}
             /\ ret'.val.error = <<"Invalid action", c.action>>
             /\ user_quota' = user_quota
             /\ transactions' = transactions
             /\ usage_sessions' = usage_sessions]_vars

\* a refresh with action 'reset' and targets that every account matches has
\* come back with the error
C26_Witness ==
    /\ ret.op = "batch_refresh_quota"
    /\ refreshed.action = "reset"
    /\ refreshed.targets = Targets(TRUE, None, None, <<>>, <<>>, None)
    /\ "error" \in DOMAIN ret.val
    /\ \A i \in DOMAIN user_quota : user_quota[i].balance # refreshed.amount

\* C27: with a usernamePattern that does not compile, batch_refresh_quota
\* returns its ordinary result with users_updated = 0 and every account
\* skipped, changes no account and appends no Transaction.
C27_BadPatternMatchesNobody ==
    [][\A c \in RefreshInputs :
          (/\ RefreshOnce(c)
           /\ c.action \in {"add", "set"}
           /\ ~IsNone(c.targets.usernamePattern)
           /\ re_error(Val(c.targets.usernamePattern)))
          => /\ DOMAIN ret'.val
                    = {"users_updated", "total_change", "skipped", "action", "rule_name"}
             /\ ret'.val.users_updated = 0
             /\ ret'.val.total_change = 0
             /\ ret'.val.skipped = Len(user_quota)
             /\ user_quota' = user_quota
             /\ transactions' = transactions]_vars

\* a refresh that sets 5 for the usernames matching "[" has skipped the
\* three accounts, none of which has 5
C27_Witness ==
    /\ ret.op = "batch_refresh_quota"
    /\ refreshed.action = "set"
    /\ refreshed.targets.usernamePattern = Some(<<"[">>)
    /\ ret.val.users_updated = 0
    /\ ret.val.skipped = 3
    /\ \A i \in DOMAIN user_quota :
           user_quota[i].balance # refreshed.amount /\ ~user_quota[i].unlimited

----------------------------------------------------------------------------
(* SpecRefreshFailure: one batch refresh in which the database may reject   *)
(* the UPDATE of one account.  batch_refresh_quota runs its whole loop in   *)
(* one session_scope and has no handler of its own: the UPDATEs are flushed *)
(* by the commit at the exit of the scope, and an exception there is        *)
(* answered by the rollback of the scope and raised to the caller.          *)

\* the rows whose UPDATE is rejected: none, or one account
FailingRows == {{}} \cup {{i} : i \in 1..3}

\* session_scope around a unit of work: commit, or rollback and raise
session_scope(w, failing) ==
    IF \E x \in w.writes : x.table = "user" /\ x.id \in failing
    THEN NoWork([raised |-> "Exception"])
    ELSE w

\* the one batch_refresh_quota call of the behaviour; loc keeps its arguments
\* and the rows that fail
RefreshScoped(c, failing) ==
    /\ ret.op = "init"
    /\ \A t \in Threads : pc[t] = "idle"
    /\ LET w == session_scope(
                    batch_refresh_quota_uow(user_quota, c.amount, c.action, c.max_balance,
                                            c.min_balance, c.targets, "manual"),
                    failing)
       IN  /\ commit(w)
           /\ ret' = Returned("batch_refresh_quota", w.result)
    /\ loc' = [loc EXCEPT ![1] = Invocation("batch_refresh_quota", <<c, failing>>)]
    /\ UNCHANGED <<now, op_lock, row_lock, pc, spawner>>

NextRefreshFailure ==
    \E c \in RefreshInputs, failing \in FailingRows : RefreshScoped(c, failing)

SpecRefreshFailure == InitRefresh /\ [][NextRefreshFailure]_vars

\* C23: when the update of one account fails during batch_refresh_quota, the
\* other accounts that match and whose balance is to change are still
\* updated, and their new balances and auto_refresh Transactions are
\* committed.
C23_FailureIsolated ==
    [][\A c \in RefreshInputs, failing \in FailingRows :
          (RefreshScoped(c, failing) /\ c.action \in {"add", "set"})
          => LET new == appended(transactions, transactions')
                 due(i) == refresh_balance(user_quota[i].balance, c.amount, c.action,
                                           c.max_balance, c.min_balance)
                 others == {i \in DOMAIN user_quota \ failing :
                               /\ match_targets(user_quota[i].username,
                                                user_quota[i].balance,
                                                user_quota[i].unlimited, c.targets)
                               /\ due(i) # user_quota[i].balance}
             IN  \A i \in others :
                     /\ user_quota'[i].balance = due(i)
                     /\ \E k \in DOMAIN new :
                            /\ new[k].username = user_quota[i].username
                            /\ new[k].transaction_type = "auto_refresh"
                            /\ new[k].balance_after = due(i)]_vars

----------------------------------------------------------------------------
(* The direction of an 'add' refresh, under SpecRefresh                     *)

\* C35: in batch_refresh_quota with action 'add', the balance change of
\* every updated account has the sign of amount: with amount > 0 no balance
\* is lowered, also when it is already above max_balance, and with
\* amount < 0 no balance is raised, also when it is already below
\* min_balance.
C35_RefreshKeepsSign ==
    [][\A c \in RefreshInputs :
          (RefreshOnce(c) /\ c.action = "add")
          => \A i \in DOMAIN user_quota :
                 /\ c.amount > 0 => user_quota'[i].balance >= user_quota[i].balance
                 /\ c.amount < 0 => user_quota'[i].balance <= user_quota[i].balance]_vars

\* C36: the counters batch_refresh_quota returns match what it did:
\* users_updated is the number of accounts whose balance changed and the
\* number of auto_refresh Transactions appended, total_change is the sum of
\* those Transactions' amounts and the sum of new - old over the accounts,
\* and users_updated + skipped is the number of accounts.
C36_RefreshCounters ==
    [][\A c \in RefreshInputs :
          (RefreshOnce(c) /\ c.action \in {"add", "set"})
          => LET new == appended(transactions, transactions')
                 changed == {i \in DOMAIN user_quota :
                                user_quota'[i].balance # user_quota[i].balance}
                 delta == [i \in DOMAIN user_quota |->
                              user_quota'[i].balance - user_quota[i].balance]
                 r == ret'.val
             IN  /\ DOMAIN user_quota' = DOMAIN user_quota
                 /\ r.users_updated = Cardinality(changed)
                 /\ r.users_updated = Len(new)
                 /\ \A k \in DOMAIN new : new[k].transaction_type = "auto_refresh"
                 /\ r.total_change = SumSeq([k \in DOMAIN new |-> new[k].amount])
                 /\ r.total_change = SumSeq(delta)
                 /\ r.users_updated + r.skipped = Len(user_quota)]_vars

\* a capped refresh of 10 over every account has raised Bob and Carol, left
\* Alice at the cap of 50, and returned 2 updated, 1 skipped
C36_Witness ==
    /\ ret.op = "batch_refresh_quota"
    /\ refreshed.action = "add"
    /\ refreshed.amount = 10
    /\ refreshed.max_balance = Some(50)
    /\ refreshed.targets = Targets(TRUE, None, None, <<>>, <<>>, None)
    /\ get_balance(user_quota, Alice) = 50
    /\ ret.val.users_updated = 2
    /\ ret.val.skipped = 1
    /\ ret.val.total_change = 20
    /\ Len(transactions) >= 2
    /\ transactions[Len(transactions)].transaction_type = "auto_refresh"
    /\ transactions[Len(transactions) - 1].transaction_type = "auto_refresh"

----------------------------------------------------------------------------
(* SpecRequests: two threads, each serving one request: a QuotaManager      *)
(* call, batch_set_quota, or the 'deduct' branch of QuotaAPIHandler.post.   *)
(* A locked call waits for _op_lock, reads, and leaves session_scope by a   *)
(* commit or, when an exception is raised inside the scope, by a rollback.  *)

\* (mutant) an exception leaves the flushed UPDATEs in place and loses the
\* Transaction
session_scope_exit_partial(w, raised) ==
    IF raised THEN [w EXCEPT !.ins_users = <<>>, !.ins_sessions = <<>>,
                             !.ins_txns = <<>>, !.result = None]
    ELSE w

\* session_scope: session.commit() at the exit of the block, or
\* session.rollback() and re-raise when the block raised
session_scope_exit(w, raised) ==
    IF raised THEN NoWork(None) ELSE w

\* (mutant) the lock stays held when the block raised
op_lock_kept_on_error(t, raised) ==
    IF raised THEN op_lock ELSE IF op_lock = t THEN 0 ELSE op_lock

\* "with self._op_lock": the lock once thread t has left the block, by its
\* end, a return or an exception
op_lock_released(t, raised) ==
    IF op_lock = t THEN 0 ELSE op_lock

\* (mutant) the loop ends at the first entry that fails
batch_set_quota_stops_on_failure(entries, k, raised) ==
    ~raised /\ k < Len(entries)

\* batch_set_quota, QuotaBatchAPIHandler.post: the for loop goes on to the
\* next entry whether set_balance returned or raised
batch_set_quota_continues(entries, k, raised) ==
    k < Len(entries)

\* the locals of a thread that serves a request; result is what the request
\* returned, None while it runs and when it raised
Request(c) ==
    [call |-> c, users |-> <<>>, sessions |-> <<>>, result |-> None, raised |-> FALSE,
     k |-> 1, current_balance |-> 0, success |-> 0, failed |-> 0]

\* the QuotaManager call the request is in
manager_call(l) ==
    CASE l.call.op = "batch_set_quota" -> Invocation("set_balance", l.call.args[1][l.k])
      [] l.call.op = "post_deduct" -> Invocation("deduct_quota", l.call.args)
      [] OTHER -> l.call

\* its unit of work; the handler passes the description (none here) as the
\* resource type of deduct_quota
request_uow(l, users, sessions, t) ==
    IF l.call.op = "post_deduct"
    THEN deduct_quota_uow(users, l.call.args[1], l.call.args[2], "")
    ELSE call_uow(manager_call(l), users, sessions, t)

\* QuotaAPIHandler.post, action deduct: get_balance, then the refusal or the
\* call of deduct_quota
PostDeduct(t, name, amount) ==
    /\ pc[t] = "idle"
    /\ LET current_balance == get_balance(user_quota, name)
           l == [Request(Invocation("post_deduct", <<name, amount>>))
                    EXCEPT !.current_balance = current_balance]
           refusal == [status |-> 400, error |-> "Insufficient balance"]
       IN  IF current_balance < amount
           THEN /\ loc' = [loc EXCEPT ![t] = [l EXCEPT !.result = Some(refusal)]]
                /\ pc' = [pc EXCEPT ![t] = "done"]
           ELSE /\ loc' = [loc EXCEPT ![t] = l]
                /\ pc' = [pc EXCEPT ![t] = "acquire"]
    /\ UNCHANGED <<db, now, ret, op_lock, row_lock, spawner>>

\* batch_set_quota: the results start at 0 and the loop at the first entry
BatchSetQuota(t, entries) ==
    /\ pc[t] = "idle"
    /\ LET l == Request(Invocation("batch_set_quota", <<entries>>))
           results == [success |-> 0, failed |-> 0]
       IN  IF entries = <<>>
           THEN /\ loc' = [loc EXCEPT ![t] = [l EXCEPT !.result = Some(results)]]
                /\ pc' = [pc EXCEPT ![t] = "done"]
           ELSE /\ loc' = [loc EXCEPT ![t] = l]
                /\ pc' = [pc EXCEPT ![t] = "acquire"]
    /\ UNCHANGED <<db, now, ret, op_lock, row_lock, spawner>>

\* a QuotaManager call is made: batch_refresh_quota returns at once on an
\* invalid action, a locked operation goes for the lock, end_usage_session
\* opens its session and reads
Enter(t, c) ==
    /\ pc[t] = "idle"
    /\ LET l == Request(c)
           invalid == c.op = "batch_refresh_quota" /\ c.args[1].action \notin {"add", "set"}
           error == call_uow(c, user_quota, usage_sessions, now).result
       IN  /\ loc' = [loc EXCEPT ![t] =
                        IF invalid THEN [l EXCEPT !.result = Some(error)]
                        ELSE IF c.op \in LockedOps THEN l
                        ELSE [l EXCEPT !.users = user_quota, !.sessions = usage_sessions]]
           /\ pc' = [pc EXCEPT ![t] = IF invalid THEN "done"
                                     ELSE IF c.op \in LockedOps THEN "acquire" ELSE "read"]
    /\ UNCHANGED <<db, now, ret, op_lock, row_lock, spawner>>

\* "with self._op_lock": the thread waits until the lock is free, takes it,
\* and the body runs its first query
Acquire(t) ==
    /\ pc[t] = "acquire"
    /\ op_lock = 0
    /\ op_lock' = t
    /\ loc' = [loc EXCEPT ![t].users = user_quota, ![t].sessions = usage_sessions]
    /\ pc' = [pc EXCEPT ![t] = "read"]
    /\ UNCHANGED <<db, now, ret, row_lock, spawner>>

\* the rest of the body and the exit of session_scope and of the lock; the
\* request returns, or batch_set_quota goes on to its next entry
ScopeExit(t, raised) ==
    /\ \/ pc[t] = "flushed"
       \/ pc[t] = "read" /\ ~flushes(loc[t].call, loc[t].sessions, now)
    /\ LET l == loc[t]
           w == session_scope_exit(request_uow(l, l.users, l.sessions, now), raised)
           more == /\ l.call.op = "batch_set_quota"
                   /\ batch_set_quota_continues(l.call.args[1], l.k, raised)
           success == IF raised THEN l.success ELSE l.success + 1
           failed == IF raised THEN l.failed + 1 ELSE l.failed
           result == CASE l.call.op = "batch_set_quota" ->
                              Some([success |-> success, failed |-> failed])
                       [] l.call.op = "post_deduct" ->
                              IF raised
                              THEN Some([status |-> 500, error |-> "Internal server error"])
                              ELSE Some([status |-> 200, balance |-> w.result])
                       [] OTHER -> IF raised THEN None ELSE Some(w.result)
       IN  /\ ~locked_by_other(t, session_rows(w))
           /\ commit(w)
           /\ loc' = [loc EXCEPT ![t] =
                        [l EXCEPT !.success = success, !.failed = failed,
                                  !.raised = raised,
                                  !.k = IF more THEN l.k + 1 ELSE l.k,
                                  !.result = IF more THEN l.result ELSE result]]
           /\ pc' = [pc EXCEPT ![t] = IF more THEN "acquire" ELSE "done"]
    /\ row_lock' = {x \in row_lock : x[2] # t}
    /\ op_lock' = op_lock_released(t, raised)
    /\ UNCHANGED <<now, ret, spawner>>

RequestGrants == {3, 4}
RequestDeducts == {2, 5}
RequestEntries == { <<<<AliceUpper, 1>>, <<Bob, 2>>>>, <<<<Bob, 3>>>>, <<>> }
RequestCalls ==
    { Invocation("add_quota", <<AliceUpper, 2>>),
      Invocation("set_balance", <<AliceUpper, 1>>),
      Invocation("deduct_quota", <<AliceUpper, 3>>),
      Invocation("end_usage_session", <<1, ("cpu" :> 1) @@ ("gpu" :> 2)>>),
      Invocation("end_usage_session", <<1, ("cpu" :> 0) @@ ("gpu" :> 0)>>),
      Invocation("cleanup_stale_sessions", <<1>>),
      Invocation("batch_refresh_quota", <<Refresh(2, "add", None, None, NoTargets)>>),
      Invocation("batch_refresh_quota", <<Refresh(2, "reset", None, None, NoTargets)>>) }

\* ensure_user_quota has created the account with its grant and
\* start_session has opened a session, two minutes ago
InitRequests ==
    /\ \E g \in RequestGrants :
          /\ user_quota = RaceStart(g).users
          /\ usage_sessions = RaceStart(g).sessions
          /\ transactions = RaceStart(g).txns
    /\ now = 2 * TicksPerMinute
    /\ ret = Returned("init", None)
    /\ op_lock = 0
    /\ row_lock = {}
    /\ pc = [t \in Threads |-> "idle"]
    /\ loc = [t \in Threads |-> None]
    /\ spawner = NoSpawner

\* the handler's coroutine has no await between its get_balance and its
\* deduct_quota, so the requests of the event loop (thread 1) come one after
\* the other; the calls of the other thread fall between its steps
NextRequests ==
    \/ \E m \in RequestDeducts : PostDeduct(1, AliceUpper, m)
    \/ \E t \in Threads, entries \in RequestEntries : BatchSetQuota(t, entries)
    \/ \E t \in Threads, c \in RequestCalls : Enter(t, c)
    \/ \E t \in Threads : Acquire(t)
    \/ \E t \in Threads : RaceFlush(t)
    \/ \E t \in Threads, raised \in BOOLEAN : ScopeExit(t, raised)

SpecRequests == InitRequests /\ [][NextRequests]_vars

\* every thread that has made its call goes on: it takes the lock when the
\* lock is free, and its queries and its commit or rollback are answered
SpecRequestsFair ==
    /\ SpecRequests
    /\ \A t \in Threads :
          /\ WF_vars(Acquire(t))
          /\ WF_vars(RaceFlush(t))
          /\ WF_vars(\E raised \in BOOLEAN : ScopeExit(t, raised))

----------------------------------------------------------------------------
(* Claims checked under SpecRequests                                        *)

\* C33: when add_quota, set_balance, deduct_quota, end_usage_session or
\* batch_refresh_quota fails before its commit, the committed tables are
\* the tables before the operation: no balance, no Transaction and no
\* session field has changed.  So in every committed step a balance changes
\* only together with a Transaction of its account that ends at the new
\* balance, and a Transaction that moves a balance is committed only
\* together with that balance.
C33_FailureLeavesNothing ==
    [][\A t \in Threads, raised \in BOOLEAN :
          (ScopeExit(t, raised) /\ manager_call(loc[t]).op \in BalanceOps)
          => LET new == appended(transactions, transactions')
             IN  /\ raised => /\ user_quota' = user_quota
                              /\ transactions' = transactions
                              /\ usage_sessions' = usage_sessions
                 /\ \A i \in DOMAIN user_quota' :
                        (i \notin DOMAIN user_quota
                            \/ user_quota'[i].balance # user_quota[i].balance)
                        => \E k \in DOMAIN new :
                               /\ new[k].username = user_quota'[i].username
                               /\ new[k].balance_after = user_quota'[i].balance
                 /\ \A k \in DOMAIN new :
                        new[k].balance_after # new[k].balance_before
                        => get_balance(user_quota', new[k].username) = new[k].balance_after]_vars

\* end_usage_session had closed the session and charged the account when
\* it failed: the session is still active, the balance is the grant and the
\* log has the grant only
C33_Witness ==
    /\ pc[1] = "done"
    /\ pc[2] = "idle"
    /\ loc[1].call.op = "end_usage_session"
    /\ loc[1].raised
    /\ request_uow(loc[1], loc[1].users, loc[1].sessions, now).ins_txns # <<>>
    /\ usage_sessions[1].status = "active"
    /\ Len(transactions) = 1
    /\ get_balance(user_quota, Alice) = transactions[1].balance_after

\* C38: batch_set_quota takes its entries one by one and each on its own:
\* an entry whose set_balance fails is counted in failed and changes nothing,
\* an entry whose set_balance returns is counted in success and is
\* committed with one 'set' Transaction of its own; neither undoes what was
\* committed before, the loop goes on to the next entry in both cases, and
\* when it ends success + failed is the number of entries.
C38_BatchEntriesIndependent ==
    [][\A t \in Threads, raised \in BOOLEAN :
          (ScopeExit(t, raised) /\ loc[t].call.op = "batch_set_quota")
          => LET l == loc[t]
                 entries == l.call.args[1]
                 e == entries[l.k]
                 new == appended(transactions, transactions')
             IN  /\ SubSeq(transactions', 1, Len(transactions)) = transactions
                 /\ \A i \in DOMAIN user_quota :
                        user_quota'[i].username # lower(e[1]) => user_quota'[i] = user_quota[i]
                 /\ raised => /\ new = <<>>
                              /\ user_quota' = user_quota
                              /\ loc'[t].failed = l.failed + 1
                              /\ loc'[t].success = l.success
                 /\ ~raised => /\ Len(new) = 1
                               /\ new[1].transaction_type = "set"
                               /\ new[1].username = lower(e[1])
                               /\ new[1].balance_after = e[2]
                               /\ loc'[t].success = l.success + 1
                               /\ loc'[t].failed = l.failed
                 /\ loc'[t].success + loc'[t].failed = l.k
                 /\ IF l.k < Len(entries)
                    THEN pc'[t] = "acquire" /\ loc'[t].k = l.k + 1
                    ELSE /\ pc'[t] = "done"
                         /\ Val(loc'[t].result).success + Val(loc'[t].result).failed
                                = Len(entries)]_vars

\* batch_set_quota of two entries has returned 1 success and 1 failed: the
\* first entry failed and left Alice's balance alone, the second one gave Bob
\* an account with 2 and its 'set' Transaction
C38_Witness ==
    /\ pc[1] = "done"
    /\ pc[2] = "idle"
    /\ loc[1].call = Invocation("batch_set_quota", <<<<<<AliceUpper, 1>>, <<Bob, 2>>>>>>)
    /\ loc[1].result = Some([success |-> 1, failed |-> 1])
    /\ get_balance(user_quota, Alice) = transactions[1].balance_after
    /\ get_balance(user_quota, Alice) # 1
    /\ get_balance(user_quota, Bob) = 2
    /\ Len(transactions) = 2
    /\ transactions[2].transaction_type = "set"
    /\ transactions[2].username = Bob

\* C37: a 'deduct' request to QuotaAPIHandler.post is all or nothing,
\* whatever other balance operations on the account run between its steps:
\* it is refused with 'Insufficient balance' and changes no balance and no
\* Transaction, or it reports success, the balance is lower by exactly the
\* requested amount and one Transaction records that amount.
C37_DeductAllOrNothing ==
    [][\A t \in Threads :
          /\ (pc[t] = "idle" /\ pc'[t] = "done" /\ loc'[t].call.op = "post_deduct")
             => /\ Val(loc'[t].result).error = "Insufficient balance"
                /\ UNCHANGED db
          /\ (ScopeExit(t, FALSE) /\ loc[t].call.op = "post_deduct")
             => LET name == loc[t].call.args[1]
                    amount == loc[t].call.args[2]
                    new == appended(transactions, transactions')
                IN  /\ Val(loc'[t].result).status = 200
                    /\ get_balance(user_quota', name) = get_balance(user_quota, name) - amount
                    /\ Len(new) = 1
                    /\ new[1].amount = -amount
                    /\ new[1].balance_after = new[1].balance_before - amount]_vars

----------------------------------------------------------------------------
(* Claims checked under SpecRequestsFair                                    *)

\* C34: no QuotaManager operation blocks forever on _op_lock.  The lock is
\* held only by a thread that is inside a locked block, so a thread that
\* goes for the lock never holds it already (batch_set_quota calls
\* set_balance outside the lock) and no thread keeps it after a return or an
\* exception; and every call that has been made returns.
C34_NoCallBlocksForever ==
    /\ [](\A t \in Threads :
             /\ op_lock = t => pc[t] \in {"read", "flushed"} /\ manager_call(loc[t]).op \in LockedOps
             /\ pc[t] = "acquire" => op_lock # t)
    /\ \A t \in Threads : (pc[t] \in {"acquire", "read", "flushed"}) ~> (pc[t] = "done")

\* thread 2 waits for the lock while batch_set_quota, whose first entry
\* raised, is inside set_balance for its second entry
C34_Witness ==
    /\ pc[2] = "acquire"
    /\ pc[1] = "read"
    /\ op_lock = 1
    /\ loc[1].call.op = "batch_set_quota"
    /\ loc[1].k = 2
    /\ loc[1].failed = 1

----------------------------------------------------------------------------
(* SpecSpawner: the RemoteLabKubeSpawner of one user.  Its coroutines run   *)
(* on the event loop, one at a time from one await to the next: start() up  *)
(* to "await super().start()" and after it, stop() up to "await             *)
(* super().stop()" and after it, and the timer callback check_timeout.      *)

MaxSpawns == 2
MaxStops == 3

\* (mutant) a start the gate denies goes on
start_blocked_never(can_start) == FALSE

\* start: "if not can_start: raise web.HTTPError(403, ...)"
start_blocked(can_start) == ~can_start

\* (mutant) stop leaves the session id in place
usage_session_id_kept_in_stop(s) == s.usage_session_id

\* stop: "self.usage_session_id = None", before end_usage_session is called
usage_session_id_in_stop(s) == None

\* "self.check_timer = ..." drops the handle the attribute referred to; a
\* timer dropped while it is scheduled stays with the event loop
dropped(s) ==
    IF s.check_timer = "scheduled" THEN Append(s.loop_timers, s.check_at)
    ELSE s.loop_timers

\* self.check_timer = loop.call_later(60, self.check_timeout)
call_later(s, t) ==
    [s EXCEPT !.loop_timers = dropped(s),
              !.check_timer = "scheduled", !.check_at = t + TicksPerMinute]

\* the sequence without its k-th element
without(seq, k) == SubSeq(seq, 1, k - 1) \o SubSeq(seq, k + 1, Len(seq))

\* check_timeout
check_timeout(s, t) ==
    IF IsNone(s.shutdown_time) THEN s
    ELSE IF t >= Val(s.shutdown_time)
         THEN [s EXCEPT !.stops_scheduled = @ + 1]
         ELSE call_later(s, t)

\* start() up to "await super().start()": the quota check and the usage session
SpawnerStart(gpu_selection, runtime_minutes) ==
    /\ IsNone(spawner.starting)
    /\ spawner.spawns < MaxSpawns
    /\ \A t \in Threads : pc[t] = "idle"
    /\ LET username == lower(spawner.user)
           accelerator_type == IF IsNone(gpu_selection) THEN "cpu" ELSE Val(gpu_selection)
           d0 == Tables(user_quota, usage_sessions, transactions)
           has_unlimited == is_unlimited(user_quota, username)
           gate == can_start_container_uow(user_quota, username, accelerator_type,
                       runtime_minutes, spawner.quota_rates, spawner.default_quota)
           d1 == committed(d0, gate)
           session == start_session_uow(d1.sessions, username, accelerator_type, now)
           d2 == committed(d1, session)
           skipped == ~spawner.quota_enabled \/ has_unlimited
           blocked == ~skipped /\ start_blocked(gate.result[1])
           d == IF skipped THEN d0 ELSE IF blocked THEN d1 ELSE d2
           asked == IF spawner.quota_enabled
                    THEN <<Invocation("is_unlimited_in_db", <<username>>)>>
                    ELSE <<>>
           gated == IF skipped THEN <<>>
                    ELSE <<Invocation("can_start_container",
                               <<username, accelerator_type, runtime_minutes>>)>>
           metered == IF skipped \/ blocked THEN <<>>
                      ELSE <<Invocation("start_usage_session", <<username, accelerator_type>>)>>
           awaited == IF blocked THEN <<>> ELSE <<Invocation("super.start", <<>>)>>
       IN  /\ user_quota' = d.users
           /\ usage_sessions' = d.sessions
           /\ transactions' = d.txns
           /\ spawner' =
                 [spawner EXCEPT
                    !.spawns = @ + 1,
                    !.calls = @ \o asked \o gated \o metered \o awaited,
                    !.usage_session_id = IF blocked THEN @
                                         ELSE IF skipped THEN None
                                         ELSE Some(session.result),
                    !.has_unlimited_quota = IF blocked THEN @ ELSE skipped,
                    !.raised = IF blocked
                               THEN Some([status |-> 403,
                                          message |-> <<"Cannot start container",
                                                        gate.result[2]>>])
                               ELSE None,
                    !.starting = IF blocked THEN None
                                 ELSE Some([start_time |-> now,
                                            runtime_minutes |-> runtime_minutes])]
    /\ UNCHANGED <<now, ret, op_lock, row_lock, pc, loc>>

\* start() after "await super().start()": the start time and the timer; when
\* super().start() raised, start() ends there
SpawnerStarted(ok) ==
    /\ ~IsNone(spawner.starting)
    /\ LET l == Val(spawner.starting)
           s == [spawner EXCEPT !.starting = None]
       IN  spawner' =
              IF ~ok THEN s
              ELSE IF spawner.single_node_mode
                   THEN [s EXCEPT !.start_time = Some(l.start_time),
                                  !.shutdown_time = None,
                                  !.loop_timers = dropped(s), !.check_timer = "none"]
                   ELSE call_later(
                            [s EXCEPT !.start_time = Some(l.start_time),
                                      !.shutdown_time =
                                          Some(l.start_time
                                               + l.runtime_minutes * TicksPerMinute)],
                            now)
    /\ UNCHANGED <<db, now, ret, op_lock, row_lock, pc, loc>>

\* stop() up to "await super().stop()", called by the hub (explicit) or
\* created by check_timeout: the session id is taken and cleared,
\* end_usage_session is called (an exception it raises is printed), the
\* timer is cancelled
SpawnerStop(explicit, raised) ==
    /\ spawner.stops < MaxStops
    /\ explicit \/ spawner.stops_scheduled > 0
    /\ \A t \in Threads : pc[t] = "idle"
    /\ LET metered == spawner.quota_enabled /\ ~IsNone(spawner.usage_session_id)
           session_id == Val(spawner.usage_session_id)
           w == IF metered
                THEN session_scope_exit(
                         end_usage_session_uow(user_quota, usage_sessions, now,
                                               session_id, spawner.quota_rates),
                         raised)
                ELSE NoWork(None)
       IN  /\ commit(w)
           /\ spawner' =
                 [spawner EXCEPT
                    !.stops = @ + 1,
                    !.stops_scheduled = IF explicit THEN @ ELSE @ - 1,
                    !.stops_awaiting = @ + 1,
                    !.usage_session_id = IF metered THEN usage_session_id_in_stop(spawner)
                                         ELSE @,
                    !.check_timer = IF @ = "scheduled" THEN "cancelled" ELSE @,
                    !.calls = @ \o (IF metered
                                    THEN <<Invocation("end_usage_session", <<session_id>>)>>
                                    ELSE <<>>)
                                \o <<Invocation("super.stop", <<>>)>>]
    /\ UNCHANGED <<now, ret, op_lock, row_lock, pc, loc>>

\* stop() after "await super().stop()"
SpawnerStopped ==
    /\ spawner.stops_awaiting > 0
    /\ spawner' = [spawner EXCEPT !.stops_awaiting = @ - 1]
    /\ UNCHANGED <<db, now, ret, op_lock, row_lock, pc, loc>>

\* the event loop runs a timer that is due: the one self.check_timer refers
\* to, or one the attribute has dropped
CheckTimeout ==
    /\ \/ /\ spawner.check_timer = "scheduled"
          /\ now >= spawner.check_at
          /\ spawner' = check_timeout([spawner EXCEPT !.check_timer = "fired"], now)
       \/ \E k \in DOMAIN spawner.loop_timers :
             /\ now >= spawner.loop_timers[k]
             /\ spawner' = check_timeout(
                               [spawner EXCEPT !.loop_timers = without(@, k)], now)
    /\ UNCHANGED <<db, now, ret, op_lock, row_lock, pc, loc>>

SpawnerRates == ("cpu" :> 1) @@ ("gpu" :> 2)
SpawnerDefaultQuota == 2
SpawnerMinutes == {1, 3}
SpawnerSelections == {None, Some("gpu")}

\* the account of the spawner's user: none yet, one with a grant of 4, or
\* one made unlimited
SpawnerTables ==
    LET none == Tables(<<>>, <<>>, <<>>)
        granted == committed(none, ensure_user_quota_uow(<<>>, AliceUpper, 4))
    IN  { none, granted,
          committed(granted, set_unlimited_uow(granted.users, AliceUpper, TRUE, Root)) }

\* a spawner with quota disabled never looks at the tables: it is given
\* the empty ones
InitSpawner ==
    /\ \E d \in SpawnerTables :
          /\ user_quota = d.users
          /\ usage_sessions = d.sessions
          /\ transactions = d.txns
    /\ now = 0
    /\ ret = Returned("init", None)
    /\ op_lock = 0
    /\ row_lock = {}
    /\ pc = [t \in Threads |-> "idle"]
    /\ loc = [t \in Threads |-> None]
    /\ \E quota_enabled \in BOOLEAN, single_node_mode \in BOOLEAN :
          /\ quota_enabled \/ user_quota = <<>>
          /\ spawner = Spawner(AliceUpper, quota_enabled, single_node_mode,
                               SpawnerRates, SpawnerDefaultQuota)

NextSpawner ==
    \/ \E g \in SpawnerSelections, m \in SpawnerMinutes : SpawnerStart(g, m)
    \/ \E ok \in BOOLEAN : SpawnerStarted(ok)
    \/ \E explicit \in BOOLEAN, raised \in BOOLEAN : SpawnerStop(explicit, raised)
    \/ SpawnerStopped
    \/ CheckTimeout
    \/ Tick

SpecSpawner == InitSpawner /\ [][NextSpawner]_vars

----------------------------------------------------------------------------
(* Claims checked under SpecSpawner                                         *)

\* the end_usage_session calls the spawner has made for a session id
ended(id) ==
    {k \in DOMAIN spawner.calls :
        /\ spawner.calls[k].op = "end_usage_session"
        /\ spawner.calls[k].args[1] = id}

\* C31: whatever stop() invocations a spawner goes through (explicit, from
\* check_timeout, repeated, overlapping), it calls end_usage_session at
\* most once for a usage session it obtained in start(): the session id is
\* cleared before the call is made, so no later stop() finds it.
C31_EndedAtMostOnce ==
    \A id \in DOMAIN usage_sessions :
        /\ Cardinality(ended(id)) <= 1
        /\ ended(id) # {} => spawner.usage_session_id # Some(id)

\* three stop() calls, one of them created by check_timeout at the shutdown
\* time, have run after one metered start: end_usage_session was called once
C31_Witness ==
    /\ spawner.spawns = 1
    /\ spawner.stops = 3
    /\ spawner.check_timer = "fired"
    /\ ~IsNone(spawner.shutdown_time)
    /\ now >= Val(spawner.shutdown_time)
    /\ spawner.stops_scheduled = 0
    /\ Cardinality(ended(1)) = 1
    /\ usage_sessions[1].status = "completed"

\* C32: with quota enabled and a user who is not unlimited, start() calls
\* start_usage_session only after can_start_container has allowed the start;
\* when the gate denies, start() raises HTTP 403 with the gate's message,
\* creates no usage session and does not reach super().start().
C32_GateBeforeSession ==
    [][\A g \in SpawnerSelections, m \in SpawnerMinutes :
          (SpawnerStart(g, m) /\ spawner.quota_enabled
              /\ ~is_unlimited(user_quota, spawner.user))
          => LET new == appended(spawner.calls, spawner'.calls)
                 accelerator_type == IF IsNone(g) THEN "cpu" ELSE Val(g)
                 gate == can_start_container_uow(user_quota, spawner.user, accelerator_type,
                             m, spawner.quota_rates, spawner.default_quota).result
                 made(op) == {k \in DOMAIN new : new[k].op = op}
             IN  /\ Cardinality(made("can_start_container")) = 1
                 /\ \A k \in made("start_usage_session") :
                        /\ gate[1]
                        /\ \A j \in made("can_start_container") : j < k
                 /\ \A k \in made("super.start") : gate[1]
                 /\ gate[1] => /\ Cardinality(made("start_usage_session")) = 1
                               /\ Len(usage_sessions') = Len(usage_sessions) + 1
                               /\ spawner'.usage_session_id = Some(Len(usage_sessions'))
                               /\ IsNone(spawner'.raised)
                 /\ ~gate[1] => /\ spawner'.raised
                                     = Some([status |-> 403,
                                             message |-> <<"Cannot start container", gate[2]>>])
                                /\ usage_sessions' = usage_sessions
                                /\ IsNone(spawner'.starting)]_vars

\* a start of 3 minutes on the gpu by a new user, whose default grant is 2,
\* was denied: 403, no session, nothing started
C32_Witness ==
    /\ spawner.quota_enabled
    /\ spawner.spawns = 1
    /\ ~IsNone(spawner.raised)
    /\ Val(spawner.raised).status = 403
    /\ Val(spawner.raised).message[2][1] = "Insufficient quota for"
    /\ usage_sessions = <<>>
    /\ get_balance(user_quota, Alice) = SpawnerDefaultQuota
    /\ IsNone(spawner.starting)
    /\ \A k \in DOMAIN spawner.calls : spawner.calls[k].op # "super.start"

====
